---- MODULE Spec2Model ----
(***************************************************************************)
(* Model of the InDesign-to-PDF conversion and Acrobat comparison          *)
(* controllers: the /api/upload handler with its one-shot font             *)
(* remediation and retry, convertInDesignToPDF / runInDesignWithScript,    *)
(* and comparePDFsWithAcrobat / executeAcrobatComparison; further the      *)
(* batch converter's retry loop (scripts/batchConvert.js) with the search  *)
(* for the InDesign file, and comparePDFsDirectly of the AI comparison.    *)
(*                                                                         *)
(* Text is modelled as a sequence of lines, a line as a sequence of        *)
(* tokens (words or phrases).  String.includes(x) is token membership,     *)
(* split("\n") is the sequence of lines, and a data chunk written by the   *)
(* child process is a block of whole lines.                                *)
(***************************************************************************)
EXTENDS Integers, Sequences, FiniteSets, TLC

\* ------------------------------------------------------------------ bounds
MaxOut == 2          \* data chunks the child processes may emit in one run
MaxTime == 1         \* largest value Date.now() takes
MaxFonts == 3        \* most fonts a diagnostic lists
MaxItems == 2        \* most fonts, and most links, of a document
MaxZips == 2         \* most zip files in the batch converter's source folder
MaxFiles == 4        \* most PDFs handed to comparePDFsDirectly

\* batchConvert.js line 163
MAX_RETRIES == 1

Jobs == {"A", "B"}

\* ------------------------------------------------------------ text helpers
EmptyText == << >>

\* line.includes(x): S is the set of tokens that contain the substring x
LineHas(line, S) == \E k \in 1..Len(line) : line[k] \in S

\* String.prototype.includes on a text
Includes(text, S) == \E i \in 1..Len(text) : LineHas(text[i], S)

ErrorMarker == {"ERROR:"}
MissingFontsText == {"Missing Fonts"}
PreflightFailedText == {"Preflight Failed"}
FollowingFontsText == {"following fonts are"}
SolutionsText == {"Solutions:", "Solutions"}
AvailableText == {"Available fonts in your Document fonts folder:", "Available"}

RECURSIVE TrimLeft(_)
TrimLeft(text) ==
  IF text = << >> THEN << >>
  ELSE IF Head(text) = << >> THEN TrimLeft(Tail(text)) ELSE text

RECURSIVE TrimRight(_)
TrimRight(text) ==
  IF text = << >> THEN << >>
  ELSE IF text[Len(text)] = << >> THEN TrimRight(SubSeq(text, 1, Len(text) - 1))
       ELSE text

\* String.prototype.trim: leading and trailing blank lines go
Trim(text) == TrimRight(TrimLeft(text))

\* a || b on strings: the empty string is falsy
OrElse(a, b) == IF a # << >> THEN a ELSE b

\* --------------------------------------------------------- output alphabet
NoiseTokens == {"Class AdobeSimpleURLSession", "objc[", "is implemented in both",
                "One of the duplicates must be removed"}

\* buildErrorMessage output for one missing font, written by the script's
\* catch block as "ERROR: " + err.message
ChunkFonts ==
  << <<"ERROR:", "Document has critical errors">>,
     << >>,
     <<"*", "Missing Fonts", "(1):">>,
     <<"The", "following fonts are", "NOT in your Document fonts folder:">>,
     << >>,
     <<"-", "Solway-Bold">>,
     << >>,
     <<"Solutions:">> >>

\* book preflight failure that names no font
ChunkPreflight ==
  << <<"ERROR:", "Preflight Failed">>,
     << >>,
     <<"Book has errors">> >>

\* macOS duplicate-class warning
ChunkNoise == << <<"objc[", "Class AdobeSimpleURLSession", "is implemented in both">> >>

\* osascript failure line: script path marker, wrapper, message, error code
ChunkWrapped ==
  << <<"/tmp/indesign_export.scpt:165:205:",
       "execution error: Adobe InDesign 2026 got an error:",
       "Uncaught JavaScript exception:",
       "Missing Fonts", "(54)">> >>

Chunks == {ChunkFonts, ChunkPreflight, ChunkNoise, ChunkWrapped}

ExitCodes == {0, 1}
SignalCode == -1     \* the close handler's code is null after a signal death

\* ------------------------------------------- close handler of the Convert flow
IsNoiseLine(line) == \E k \in 1..Len(line) : line[k] \in NoiseTokens

\* stderr.split("\n").filter(...).join("\n").trim()
FilterNoise(text) == Trim(SelectSeq(text, LAMBDA l : ~IsNoiseLine(l)))

\* index of the first line that holds tok, 0 when there is none
RECURSIVE FirstLineWith(_, _, _)
FirstLineWith(text, S, i) ==
  IF i > Len(text) THEN 0
  ELSE IF LineHas(text[i], S) THEN i ELSE FirstLineWith(text, S, i + 1)

RECURSIVE FirstTok(_, _, _)
FirstTok(line, S, k) ==
  IF k > Len(line) THEN 0
  ELSE IF line[k] \in S THEN k ELSE FirstTok(line, S, k + 1)

\* combinedOutput.match(/ERROR:\s*(.+)/s)[1].trim(): everything after the first
\* marker, to the end of the combined output
AfterMarker(text) ==
  LET i == FirstLineWith(text, ErrorMarker, 1)
      k == FirstTok(text[i], ErrorMarker, 1)
  IN  Trim(<<SubSeq(text[i], k + 1, Len(text[i]))>> \o SubSeq(text, i + 1, Len(text)))

PathMarkers == {"/tmp/indesign_export.scpt:165:205:"}
WrapperTokens == {"execution error: Adobe InDesign 2026 got an error:",
                  "Uncaught JavaScript exception:"}
ErrorCodeTokens == {"(54)"}

RECURSIVE LastTokIn(_, _, _)
LastTokIn(line, S, k) ==
  IF k = 0 THEN 0
  ELSE IF line[k] \in S THEN k ELSE LastTokIn(line, S, k - 1)

\* the four per-line replace() calls of the error clean-up
CleanLine(line) ==
  LET p  == LastTokIn(line, PathMarkers, Len(line))
      l1 == SubSeq(line, p + 1, Len(line))
      l2 == SelectSeq(l1, LAMBDA t : t \notin WrapperTokens)
  IN  IF l2 # << >> /\ l2[Len(l2)] \in ErrorCodeTokens
      THEN SubSeq(l2, 1, Len(l2) - 1) ELSE l2

\* .replace(/\n{3,}/g, "\n\n"): a run of blank lines becomes one blank line
RECURSIVE Collapse(_)
Collapse(text) ==
  IF Len(text) < 2 THEN text
  ELSE IF text[1] = << >> /\ text[2] = << >> THEN Collapse(Tail(text))
       ELSE <<text[1]>> \o Collapse(Tail(text))

CleanMessage(text) ==
  Trim(Collapse([i \in 1..Len(text) |-> CleanLine(text[i])]))

\* `Process exited with code ${code}`
ExitedWithCode(code) ==
  << << IF code = 1 THEN "Process exited with code 1"
        ELSE IF code = 0 THEN "Process exited with code 0"
        ELSE "Process exited with code null" >> >>

\* faulty variant: any text left on stderr counts as a failure
ConvertFailedOnAnyStderr(code, out, err) ==
  code # 0 \/ FilterNoise(err) # << >> \/ Includes(out, ErrorMarker)

\* code !== 0 || filteredStderr.includes("ERROR:") || stdout.includes("ERROR:")
ConvertFailed(code, out, err) ==
  code # 0 \/ Includes(FilterNoise(err), ErrorMarker) \/ Includes(out, ErrorMarker)

\* the message of the INDESIGN_CONVERSION_FAILED error
ConvertErrorMessage(code, out, err) ==
  LET filtered == FilterNoise(err)
      combined == filtered \o out
  IN  CleanMessage(IF Includes(combined, ErrorMarker)
                   THEN AfterMarker(combined)
                   ELSE Trim(OrElse(filtered, OrElse(out, ExitedWithCode(code)))))

\* ------------------------------------------------------- parseMissingFonts
\* trimmedLine.match(/([A-Z][A-Za-z0-9\s\-()]+)/): the capture for each token
\* that holds a capital letter followed by an allowed character
Captured(tok) ==
  CASE tok = "Solway-Bold" -> "Solway-Bold"
    [] tok = "Poppins-Regular (Poppins Regular)" -> "Poppins-Regular (Poppins Regular)"
    [] tok = "Trade Gothic LT Std Bold No. 2" -> "Trade Gothic LT Std Bold No"
    [] tok = "Solutions:" -> "Solutions"
    [] tok = "Book has errors" -> "Book has errors"
    [] tok = "Preflight Failed" -> "Preflight Failed"
    [] tok = "Missing Fonts" -> "Missing Fonts"
    [] tok = "Document has critical errors" -> "Document has critical errors"
    [] tok = "The" -> "The"
    [] tok = "NOT in your Document fonts folder:" -> "NOT in your Document fonts folder"
    [] OTHER -> ""

FontMatch(line) ==
  LET k == FirstTok(line, {t \in {line[n] : n \in 1..Len(line)} : Captured(t) # ""}, 1)
  IN  IF k = 0 THEN "" ELSE Captured(line[k])

\* fontName.length > 2 && !includes("Solutions") && !includes("Available")
AcceptedName(name) == name \notin {""} \cup SolutionsText \cup AvailableText

\* the structured loop, from line i on
RECURSIVE ParseLines(_, _, _, _, _, _)
ParseLines(lines, i, inFontSection, foundFontListHeader, linesSinceHeader, fonts) ==
  IF i > Len(lines) THEN fonts
  ELSE LET line == lines[i] IN
    IF LineHas(line, MissingFontsText)
    THEN ParseLines(lines, i + 1, TRUE, foundFontListHeader, linesSinceHeader, fonts)
    ELSE IF inFontSection /\ LineHas(line, FollowingFontsText)
    THEN ParseLines(lines, i + 1, inFontSection, TRUE, linesSinceHeader, fonts)
    ELSE IF inFontSection /\ foundFontListHeader
    THEN IF line = << >> /\ linesSinceHeader + 1 < 3
         THEN ParseLines(lines, i + 1, inFontSection, foundFontListHeader,
                         linesSinceHeader + 1, fonts)
         ELSE IF line = << >> \/ LineHas(line, SolutionsText) \/ LineHas(line, AvailableText)
         THEN fonts
         ELSE ParseLines(lines, i + 1, inFontSection, foundFontListHeader,
                         linesSinceHeader + 1,
                         IF AcceptedName(FontMatch(line))
                         THEN Append(fonts, FontMatch(line)) ELSE fonts)
    ELSE ParseLines(lines, i + 1, inFontSection, foundFontListHeader,
                    linesSinceHeader, fonts)

\* the regex fallback: per token, the candidate names that are no stop word
FallbackWords(tok) ==
  CASE tok = "Solway-Bold" -> <<"Solway-Bold">>
    [] tok = "Poppins-Regular (Poppins Regular)" -> <<"Poppins-Regular">>
    [] tok = "Trade Gothic LT Std Bold No. 2" -> <<"Trade", "Gothic", "LT", "Std Bold", "No">>
    [] tok = "eurofurence light" -> <<"eurofurence light">>
    [] tok = "Preflight Failed" -> <<"Preflight", "Failed">>
    [] tok = "Book has errors" -> <<"Book", "has", "errors">>
    [] tok = "Document has critical errors" -> <<"has", "critical", "errors">>
    [] tok = "following fonts are" -> <<"following", "fonts", "are">>
    [] tok = "NOT in your Document fonts folder:" -> <<"NOT", "in", "your", "fonts", "folder">>
    [] tok = "ERROR:" -> <<"ERROR">>
    [] tok = "objc[" -> <<"objc">>
    [] tok = "Class AdobeSimpleURLSession" -> <<"Class", "AdobeSimpleURLSession">>
    [] tok = "is implemented in both" -> <<"is", "implemented", "in", "both">>
    [] tok = "Add the missing font files to the 'Document fonts' folder in your zip file" ->
         <<"Add", "the", "missing", "font", "files", "to", "fonts", "folder", "in",
           "your", "zip", "file">>
    [] OTHER -> << >>

RECURSIVE Dedup(_, _)
Dedup(seq, acc) ==
  IF seq = << >> THEN acc
  ELSE Dedup(Tail(seq),
             IF \E n \in 1..Len(acc) : acc[n] = Head(seq) THEN acc
             ELSE Append(acc, Head(seq)))

RECURSIVE Flatten(_)
Flatten(seqs) == IF seqs = << >> THEN << >> ELSE Head(seqs) \o Flatten(Tail(seqs))

FallbackFonts(text) ==
  LET toks == Flatten(text)
  IN  Dedup(Flatten([n \in 1..Len(toks) |-> FallbackWords(toks[n])]), << >>)

parseMissingFonts(errorMessage) ==
  LET fonts == ParseLines(errorMessage, 1, FALSE, FALSE, 0, << >>)
  IN  IF fonts = << >> /\ Includes(errorMessage, MissingFontsText)
      THEN FallbackFonts(errorMessage) ELSE fonts

\* ----------------------------------------------------------------- state
VARIABLES
  batch,      \* scripts/batchConvert.js: the locals of batchConvert
  ai,         \* openaiService.js: comparePDFsDirectly and the AI service's objects
  script,     \* the generated ExtendScript's run inside InDesign
  platform,   \* os.platform()
  now,        \* Date.now()
  files,      \* paths that exist in the temp directories
  fontDir,    \* file names in ~/Library/Fonts
  budget,     \* data chunks the child processes may still emit
  req,        \* per request: the route handler's locals and position
  sup,        \* per request: the supervisor promise's closure
  child       \* per request: the spawned child process

vars == <<platform, now, files, fontDir, budget, req, sup, child, script, batch, ai>>

Platforms == {"darwin", "win32", "linux"}

\* errors and promise states
Pending == [st |-> "pending", code |-> "", msg |-> EmptyText]
Ok == [st |-> "ok", code |-> "", msg |-> EmptyText]
Err(code, msg) == [st |-> "err", code |-> code, msg |-> msg]

TimeoutMsg == << <<"InDesign process timed out after 5 minutes. This may indicate missing fonts, missing links, or InDesign waiting for user input.">> >>
LaunchMsg == << <<"Failed to launch InDesign:", "Please ensure InDesign is installed at:">> >>
UnsupportedMsg == << <<"Unsupported platform for Adobe InDesign automation">> >>
NotFoundMsg == << <<"InDesign file not found:">> >>
NotGeneratedMsg == << <<"PDF was not generated successfully">> >>
WriteFailedMsg == << <<"ENOSPC: no space left on device, write">> >>
NoInDesignFileMsg == << <<"No InDesign file (.indd or .idml) found in the zip">> >>
MkdirFailedMsg == << <<"EACCES: permission denied, mkdir">> >>

AcrobatTimeoutMsg == << <<"Acrobat comparison timed out after 300 seconds">> >>
AppleScriptErrorMsg == << <<"Failed to execute AppleScript:", "spawn osascript ENOENT">> >>
PdfNotFoundMsg == << <<"First PDF file not found:">> >>
ComparisonNotGeneratedMsg == << <<"Comparison PDF was not generated successfully">> >>

TimedOutText == {TimeoutMsg[1][1], "Acrobat comparison timed out after 300 seconds"}
NoInDesignFileText == {NoInDesignFileMsg[1][1]}

\* paths
UploadPath(j) == <<"upload", j>>
ExtractPath(j) == <<"extract", j>>
InddPath(j) == <<"extract", j, "doc.indd">>
PdfPath(j) == <<"extract", j, "doc.pdf">>
DownloadPath(j, f) == <<"extract", j, "downloaded_fonts", f>>
JsxPath(t) == <<"tmp", "indesign_export", t, ".jsx">>
\* scriptPath.replace(".jsx", ".scpt")
ScptPath(jsx) == <<jsx[1], jsx[2], jsx[3], ".scpt">>
NoPath == << >>

\* the two uploaded PDFs of a compare request, in the upload directory
Pdf1Path(j) == <<"upload", j, "1.pdf">>
Pdf2Path(j) == <<"upload", j, "2.pdf">>
\* path.join(outputDir, `comparison-${timestamp}.pdf`)
ComparisonPath(t) == <<"upload", "comparison", t, ".pdf">>
\* path.join(path.dirname(outputPath), `acrobat-applescript-${Date.now()}.applescript`)
AcrobatScriptPath(t) == <<"upload", "acrobat-applescript", t, ".applescript">>
\* path.join(absOutputFolder, `[Compare Report] ${name}.pdf`)
ReportPath(name) == <<"upload", "[Compare Report]", name>>
\* path.basename(absPdf2, ".pdf")
Pdf2Name(j) == <<j, "2">>
possibleNames(j) == <<Pdf2Name(j), <<"error">>, <<"correct">> >>
\* the report names Acrobat is let to save under
SavedNames(j) == {Pdf2Name(j), <<"correct">>}

\* everything below a directory path
Under(dir) == {f \in files : Len(f) >= Len(dir) /\ SubSeq(f, 1, Len(dir)) = dir}

\* availableFontNames of the extracted package: one font in "Document fonts"
HintChoices == {<<"Poppins-Regular">>}

NoChild == [state |-> "none", code |-> 0, killed |-> FALSE, errored |-> FALSE,
            sigterm |-> FALSE, sigkill |-> FALSE, appKilled |-> FALSE]
NoSup == [scriptPath |-> NoPath, appleScriptPath |-> NoPath, pdfPath |-> NoPath,
          stdout |-> EmptyText, stderr |-> EmptyText,
          isResolved |-> FALSE, timedOut |-> FALSE,
          timeout |-> "idle", killTimer |-> "idle", settle |-> "idle",
          classified |-> FALSE, fontNames |-> << >>, promise |-> Pending]
NoResponse == [status |-> 0, code |-> "", msg |-> EmptyText, isPreflight |-> FALSE]
NoReq == [mode |-> "none", pc |-> "idle", hints |-> << >>, attempts |-> 0, spawns |-> 0,
          result |-> Pending, firstResult |-> Pending, pending |-> Pending,
          originalErrorMessage |-> EmptyText, missingFonts |-> << >>,
          downloadedFonts |-> << >>, copied |-> {}, downloadError |-> FALSE,
          cache |-> "idle",
          error |-> Pending, response |-> NoResponse]

\* the script before it starts: the document it will open and its globals
NoScript == [pc |-> "idle", isBook |-> FALSE, fonts |-> << >>, links |-> << >>,
             availableFonts |-> << >>, errorMessage |-> << >>, warned |-> FALSE,
             exported |-> FALSE, stdout |-> EmptyText,
             opened |-> FALSE, closed |-> FALSE, quit |-> FALSE]

Set(f, j, field, v) == [f EXCEPT ![j] = [@ EXCEPT ![field] = v]]

\* resolve() and reject() settle a promise only while it is pending
Settle(s, outcome) == IF s.promise.st = "pending" THEN [s EXCEPT !.promise = outcome] ELSE s

FontFile(base) == <<base, ".ttf">>
\* path.basename(fontName, path.extname(fontName))
BaseName(file) == file[1]

Range(seq) == {seq[n] : n \in 1..Len(seq)}

Min(a, b) == IF a < b THEN a ELSE b

\* Date.now(): the clock never runs backwards
Clock == now .. Min(now + 1, MaxTime)

\* ------------------------------------------------- POST /api/upload, start
\* lines 43-73: the upload is stored, validated and extracted; the fonts of the
\* package's "Document fonts" folder are installed, before which
\* ensureDocumentFontsAccessible runs pkill -9 "Adobe InDesign"
\* (zipHandler.js:130-140): on macOS every InDesign instance dies, and with
\* it the session of each running osascript child (appKilled)
UploadBegin(j) ==
  /\ req[j].mode = "convert" /\ req[j].pc = "recv"
  /\ \E outcome \in {"nofile", "badzip", "noindd", "ok"}, fonts \in HintChoices :
       LET h == IF outcome = "ok" THEN fonts ELSE << >> IN
       /\ files' = files \cup
            CASE outcome = "nofile" -> {}
              [] outcome = "badzip" -> {UploadPath(j)}
              [] outcome = "noindd" -> {UploadPath(j), ExtractPath(j)}
              [] outcome = "ok" -> {UploadPath(j), ExtractPath(j), InddPath(j)}
       /\ fontDir' = fontDir \cup {FontFile(h[n]) : n \in 1..Len(h)}
       /\ req' = [req EXCEPT ![j] =
            CASE outcome = "nofile" ->
                   [@ EXCEPT !.pc = "done", !.response = [status |-> 400, code |-> "",
                                msg |-> << <<"No file uploaded">> >>]]
              [] outcome = "badzip" ->
                   [@ EXCEPT !.pc = "done", !.response = [status |-> 400, code |-> "",
                                msg |-> << <<"Invalid or corrupt zip file">> >>]]
              [] outcome = "noindd" ->
                   [@ EXCEPT !.pc = "error", !.error = Err("", NoInDesignFileMsg)]
              [] outcome = "ok" ->
                   [@ EXCEPT !.pc = "convert", !.hints = h,
                             !.copied = {FontFile(h[n]) : n \in 1..Len(h)} \ fontDir]]
       /\ child' = [k \in Jobs |->
            IF outcome = "ok" /\ platform = "darwin" /\ req[k].mode = "convert"
               /\ child[k].state = "running"
            THEN [child[k] EXCEPT !.appKilled = TRUE] ELSE child[k]]
  /\ UNCHANGED <<batch, ai, script, platform, now, budget, sup>>

\* the file a request hands to the automation
InputPath(j) == IF req[j].mode = "convert" THEN InddPath(j) ELSE Pdf1Path(j)

\* the periodic temp-file cleanup may remove a request's input before it is used
ExternalRemove(j) ==
  /\ req[j].pc \in {"convert", "compare"}
  /\ InputPath(j) \in files
  /\ files' = files \ {InputPath(j)}
  /\ UNCHANGED <<batch, ai, script, platform, now, fontDir, budget, req, sup, child>>

\* faulty variant: the retry's script is generated with the hints of the
\* first attempt
ConvertBeginKeepsHints(j) ==
  /\ req[j].mode = "convert" /\ req[j].pc = "convert"
  /\ IF InddPath(j) \notin files
     THEN /\ req' = [req EXCEPT ![j] = [@ EXCEPT !.attempts = @ + 1,
                       !.pc = "handle", !.result = Err("FILE_NOT_FOUND", NotFoundMsg)]]
          /\ UNCHANGED <<now, sup>>
     ELSE \E t \in Clock :
          /\ now' = t
          /\ req' = [req EXCEPT ![j] = [@ EXCEPT !.attempts = @ + 1, !.pc = "write_jsx",
                                                !.result = Pending]]
          /\ sup' = [sup EXCEPT ![j] = [NoSup EXCEPT !.scriptPath = JsxPath(t),
                         !.pdfPath = PdfPath(j),
                         !.fontNames = IF req[j].attempts = 0 THEN req[j].hints
                                       ELSE sup[j].fontNames]]
  /\ UNCHANGED <<batch, ai, script, platform, files, fontDir, budget, child>>

\* --------------------------------------------------- convertInDesignToPDF
\* lines 14-35 and 61-69: the input is checked and the script path is chosen
ConvertBegin(j) ==
  /\ req[j].mode = "convert" /\ req[j].pc = "convert"
  /\ IF InddPath(j) \notin files
     THEN /\ req' = [req EXCEPT ![j] = [@ EXCEPT !.attempts = @ + 1,
                       !.pc = "handle", !.result = Err("FILE_NOT_FOUND", NotFoundMsg)]]
          /\ UNCHANGED <<now, sup>>
     ELSE \E t \in Clock :
          /\ now' = t
          /\ req' = [req EXCEPT ![j] = [@ EXCEPT !.attempts = @ + 1, !.pc = "write_jsx",
                                                !.result = Pending]]
          /\ sup' = [sup EXCEPT ![j] = [NoSup EXCEPT !.scriptPath = JsxPath(t),
                                                      !.pdfPath = PdfPath(j),
                                                      !.fontNames = req[j].hints]]
  /\ UNCHANGED <<batch, ai, script, platform, files, fontDir, budget, child>>

\* line 722: fs.writeFile(scriptPath, script)
WriteScript(j) ==
  /\ req[j].mode = "convert" /\ req[j].pc = "write_jsx"
  /\ \E ok \in BOOLEAN :
       IF ok
       THEN /\ files' = files \cup {sup[j].scriptPath}
            /\ req' = Set(req, j, "pc", "run")
       ELSE /\ files' = files
            /\ req' = [req EXCEPT ![j] = [@ EXCEPT !.pc = "unlink",
                                                  !.pending = Err("", WriteFailedMsg)]]
  /\ UNCHANGED <<batch, ai, script, platform, now, fontDir, budget, sup, child>>

\* lines 785-843: spawn, the timeout timer and the stream and event handlers
Spawned(s) == [s EXCEPT !.timeout = "armed", !.stdout = EmptyText, !.stderr = EmptyText,
                        !.isResolved = FALSE]

NewChild(launched) ==
  [NoChild EXCEPT !.state = IF launched THEN "running" ELSE "failed"]

\* lines 740-783: the platform's command line; on macOS the AppleScript wrapper
\* is written next to the script before the spawn
RunInDesignWithScript(j) ==
  /\ req[j].mode = "convert" /\ req[j].pc = "run"
  /\ CASE platform = "linux" ->
            /\ sup' = [sup EXCEPT ![j] = Settle(@, Err("", UnsupportedMsg))]
            /\ req' = Set(req, j, "pc", "await")
            /\ UNCHANGED <<files, child>>
       [] platform = "win32" ->
            \E launched \in BOOLEAN :
            /\ sup' = [sup EXCEPT ![j] = Spawned(@)]
            /\ child' = [child EXCEPT ![j] = NewChild(launched)]
            /\ req' = [req EXCEPT ![j] = [@ EXCEPT !.pc = "await", !.spawns = @ + 1]]
            /\ UNCHANGED files
       [] platform = "darwin" ->
            \E ok \in BOOLEAN :
            /\ sup' = [sup EXCEPT ![j] =
                         [@ EXCEPT !.appleScriptPath = ScptPath(sup[j].scriptPath)]]
            /\ files' = IF ok THEN files \cup {ScptPath(sup[j].scriptPath)} ELSE files
               \* a failed write throws inside the async executor: the promise
               \* is never settled
            /\ req' = Set(req, j, "pc", IF ok THEN "spawn" ELSE "await")
            /\ UNCHANGED child
  /\ UNCHANGED <<batch, ai, script, platform, now, fontDir, budget>>

\* lines 775-843 on macOS, after the wrapper was written
SpawnOsascript(j) ==
  /\ req[j].mode = "convert" /\ req[j].pc = "spawn"
  /\ \E launched \in BOOLEAN :
       /\ sup' = [sup EXCEPT ![j] = Spawned(@)]
       /\ child' = [child EXCEPT ![j] = NewChild(launched)]
  /\ req' = [req EXCEPT ![j] = [@ EXCEPT !.pc = "await", !.spawns = @ + 1]]
  /\ UNCHANGED <<batch, ai, script, platform, now, files, fontDir, budget>>

\* ------------------------------------------------------ the child process
\* a chunk arrives on the child's stdout (lines 821-837)
StdoutData(j) ==
  /\ child[j].state \in {"running", "exited"} /\ budget > 0
  /\ \E c \in Chunks : sup' = [sup EXCEPT ![j] = [@ EXCEPT !.stdout = @ \o c]]
  /\ budget' = budget - 1
  /\ UNCHANGED <<batch, ai, script, platform, now, files, fontDir, req, child>>

\* a chunk arrives on the child's stderr (lines 839-843)
StderrData(j) ==
  /\ child[j].state \in {"running", "exited"} /\ budget > 0
  /\ \E c \in Chunks : sup' = [sup EXCEPT ![j] = [@ EXCEPT !.stderr = @ \o c]]
  /\ budget' = budget - 1
  /\ UNCHANGED <<batch, ai, script, platform, now, files, fontDir, req, child>>

\* the script's exportFile (lines 661-684) writes the PDF
ChildExports(j) ==
  /\ req[j].mode = "convert" /\ child[j].state = "running" /\ ~child[j].appKilled
  /\ sup[j].pdfPath \notin files
  /\ files' = files \cup {sup[j].pdfPath}
  /\ UNCHANGED <<batch, ai, script, platform, now, fontDir, budget, req, sup, child>>

\* the process ends: by itself with an exit code, or killed by a signal it got
ChildExits(j) ==
  /\ child[j].state = "running"
  /\ \E code \in ExitCodes \cup (IF child[j].sigterm THEN {SignalCode} ELSE {}) :
       child' = [child EXCEPT ![j] = [@ EXCEPT !.state = "exited", !.code = code]]
  /\ UNCHANGED <<batch, ai, script, platform, now, files, fontDir, budget, req, sup>>

\* ChildProcess.kill(signal): true, and killed set, when the signal was sent
Kill(c, signal) ==
  IF c.state # "running" THEN c
  ELSE IF signal = "SIGKILL"
       THEN [c EXCEPT !.killed = TRUE, !.sigkill = TRUE, !.state = "exited",
                      !.code = SignalCode]
       ELSE [c EXCEPT !.killed = TRUE, !.sigterm = TRUE]

ClearTimeout(t) == IF t = "armed" THEN "cleared" ELSE t

\* -------------------------------------- runInDesignWithScript's handlers
\* faulty variant: the timer only signals the child and leaves the outcome to
\* the close handler
ConvertTimeoutOnlyKills(j) ==
  /\ req[j].mode = "convert" /\ sup[j].timeout = "armed"
  /\ child' = [child EXCEPT ![j] = Kill(@, "SIGTERM")]
  /\ sup' = [sup EXCEPT ![j] = [@ EXCEPT !.timeout = "fired", !.killTimer = "armed"]]
  /\ UNCHANGED <<batch, ai, script, platform, now, files, fontDir, budget, req>>

\* lines 804-819: the 5 minute timer
ConvertTimeout(j) ==
  /\ req[j].mode = "convert" /\ sup[j].timeout = "armed"
  /\ IF ~sup[j].isResolved
     THEN /\ child' = [child EXCEPT ![j] = Kill(@, "SIGTERM")]
          /\ sup' = [sup EXCEPT ![j] =
                 Settle([@ EXCEPT !.timeout = "fired", !.killTimer = "armed"],
                        Err("", TimeoutMsg))]
     ELSE /\ sup' = Set(sup, j, "timeout", "fired")
          /\ UNCHANGED child
  /\ UNCHANGED <<batch, ai, script, platform, now, files, fontDir, budget, req>>

\* lines 808-812: the 5000 ms timer set by the timeout
ConvertKillTimer(j) ==
  /\ req[j].mode = "convert" /\ sup[j].killTimer = "armed"
  /\ sup' = Set(sup, j, "killTimer", "fired")
  /\ child' = [child EXCEPT ![j] = IF ~@.killed THEN Kill(@, "SIGKILL") ELSE @]
  /\ UNCHANGED <<batch, ai, script, platform, now, files, fontDir, budget, req>>

\* faulty variant: the 'error' handler only marks the call as resolved and
\* leaves the outcome to the close handler
ConvertOnErrorLeavesToClose(j) ==
  /\ req[j].mode = "convert"
  /\ child[j].state = "failed" /\ ~child[j].errored
  /\ child' = Set(child, j, "errored", TRUE)
  /\ sup' = [sup EXCEPT ![j] = [@ EXCEPT !.isResolved = TRUE, !.timeout = ClearTimeout(@)]]
  /\ UNCHANGED <<batch, ai, script, platform, now, files, fontDir, budget, req>>

\* lines 845-853: the 'error' event; without IPC or an abort signal it is
\* emitted for a child that could not be spawned
ConvertOnError(j) ==
  /\ req[j].mode = "convert"
  /\ child[j].state = "failed" /\ ~child[j].errored
  /\ child' = Set(child, j, "errored", TRUE)
  /\ sup' = [sup EXCEPT ![j] =
         Settle([@ EXCEPT !.isResolved = TRUE, !.timeout = ClearTimeout(@)],
                Err("", LaunchMsg))]
  /\ UNCHANGED <<batch, ai, script, platform, now, files, fontDir, budget, req>>

LaunchFailCode == -2

\* nothing reads the captured output once the close handler has run
Released(s) == [s EXCEPT !.stdout = EmptyText, !.stderr = EmptyText]

ClosingCode(c) == IF c.state = "failed" THEN LaunchFailCode ELSE c.code

\* lines 855-915: the 'close' event
ConvertOnClose(j) ==
  /\ req[j].mode = "convert"
  /\ child[j].state = "exited" \/ (child[j].state = "failed" /\ child[j].errored)
  /\ child' = Set(child, j, "state", "closed")
  /\ LET code == ClosingCode(child[j])
         s == [sup[j] EXCEPT !.isResolved = TRUE, !.timeout = ClearTimeout(@),
                             !.classified = TRUE]
     IN  sup' = [sup EXCEPT ![j] =
           Released(Settle(s, IF ConvertFailed(code, s.stdout, s.stderr)
                              THEN Err("INDESIGN_CONVERSION_FAILED",
                                       ConvertErrorMessage(code, s.stdout, s.stderr))
                              ELSE Ok))]
  /\ UNCHANGED <<batch, ai, script, platform, now, files, fontDir, budget, req>>

\* ------------------------------------- back in executeInDesignScript etc.
\* lines 725-733: the script file is unlinked on both paths
ExecuteScriptCleanup(j) ==
  /\ req[j].mode = "convert"
  /\ \/ req[j].pc = "unlink"
     \/ req[j].pc = "await" /\ sup[j].promise.st # "pending"
  /\ files' = files \ {sup[j].scriptPath}
  /\ req' = [req EXCEPT ![j] = [@ EXCEPT !.pc = "finish",
               !.pending = IF req[j].pc = "unlink" THEN @ ELSE sup[j].promise]]
  /\ UNCHANGED <<batch, ai, script, platform, now, fontDir, budget, sup, child>>

\* faulty variant: a resolved run is taken as a success without looking for
\* the PDF
ConvertFinishTrustsExit(j) ==
  /\ req[j].mode = "convert" /\ req[j].pc = "finish"
  /\ req' = [req EXCEPT ![j] = [@ EXCEPT !.pc = "handle", !.result =
        IF req[j].pending.st = "ok" THEN Ok
        ELSE IF req[j].pending.code = "" THEN Err("INDESIGN_ERROR", req[j].pending.msg)
             ELSE req[j].pending]]
  /\ UNCHANGED <<batch, ai, script, platform, now, files, fontDir, budget, sup, child>>

\* lines 37-52: the artifact check and the catch block's default code
ConvertFinish(j) ==
  /\ req[j].mode = "convert" /\ req[j].pc = "finish"
  /\ req' = [req EXCEPT ![j] = [@ EXCEPT !.pc = "handle", !.result =
        IF req[j].pending.st = "ok"
        THEN IF sup[j].pdfPath \in files THEN Ok
             ELSE Err("PDF_NOT_GENERATED", NotGeneratedMsg)
        ELSE IF req[j].pending.code = "" THEN Err("INDESIGN_ERROR", req[j].pending.msg)
             ELSE req[j].pending]]
  /\ UNCHANGED <<batch, ai, script, platform, now, files, fontDir, budget, sup, child>>

\* faulty variant: every failure of the first attempt is retried
IsRetryableAnyFailure(e) == e.st = "err"

\* ------------------------------------------ POST /api/upload, after convert
\* the retry condition of lines 81-82
IsRetryable(e) ==
  /\ e.st = "err" /\ e.code = "INDESIGN_CONVERSION_FAILED"
  /\ Includes(e.msg, MissingFontsText) \/ Includes(e.msg, PreflightFailedText)

\* lines 77-95 and 119-125: the first attempt's outcome
HandleFirstResult(j) ==
  /\ req[j].mode = "convert" /\ req[j].pc = "handle" /\ req[j].attempts = 1
  /\ LET r == req[j].result IN
     req' = [req EXCEPT ![j] =
       IF r.st = "ok" THEN [@ EXCEPT !.pc = "send", !.firstResult = r]
       ELSE IF IsRetryable(r)
       THEN [@ EXCEPT !.firstResult = r,
                      !.originalErrorMessage = r.msg,
                      !.missingFonts = parseMissingFonts(r.msg),
                      !.pc = IF parseMissingFonts(r.msg) # << >> THEN "download"
                             ELSE "convert"]
       ELSE [@ EXCEPT !.pc = "error", !.firstResult = r, !.error = r]]
  /\ UNCHANGED <<batch, ai, script, platform, now, files, fontDir, budget, sup, child>>

\* downloadMissingFont: the normalized name when FONT_MAPPING has an entry
DownloadName(font) ==
  CASE font = "Solway-Bold" -> "solway-bold"
    [] font = "Poppins-Regular (Poppins Regular)" -> "poppins-regular"
    [] font = "Poppins-Regular" -> "poppins-regular"
    [] OTHER -> ""

RECURSIVE Picked(_, _, _)
Picked(seq, S, n) ==
  IF n > Len(seq) THEN << >>
  ELSE (IF n \in S THEN <<seq[n]>> ELSE << >>) \o Picked(seq, S, n + 1)

\* faulty variant: the first download that fails throws out of the loop, into
\* the route's catch of line 115
DownloadFontsThrows(j) ==
  /\ req[j].mode = "convert" /\ req[j].pc = "download"
  /\ LET m == req[j].missingFonts
         mapped == {n \in 1..Len(m) : DownloadName(m[n]) # ""}
     IN \E S \in SUBSET mapped :
        LET got == Picked([n \in 1..Len(m) |-> DownloadPath(j, FontFile(DownloadName(m[n])))],
                          S, 1)
        IN /\ files' = files \cup Range(got)
           /\ req' = [req EXCEPT ![j] =
                IF S = mapped
                THEN [@ EXCEPT !.downloadedFonts = got,
                               !.pc = IF got # << >> THEN "install" ELSE "convert"]
                ELSE [@ EXCEPT !.pc = "convert", !.downloadError = TRUE]]
  /\ UNCHANGED <<batch, ai, script, platform, now, fontDir, budget, sup, child>>

\* lines 98-103 and 112-118: downloadMissingFonts; each mapped font is
\* downloaded or not
DownloadFonts(j) ==
  /\ req[j].mode = "convert" /\ req[j].pc = "download"
  /\ LET m == req[j].missingFonts
         mapped == {n \in 1..Len(m) : DownloadName(m[n]) # ""}
     IN \E S \in SUBSET mapped :
        LET got == Picked([n \in 1..Len(m) |-> DownloadPath(j, FontFile(DownloadName(m[n])))],
                          S, 1)
        IN /\ files' = files \cup Range(got)
           /\ req' = [req EXCEPT ![j] = [@ EXCEPT !.downloadedFonts = got,
                         !.pc = IF got # << >> THEN "install" ELSE "convert"]]
  /\ UNCHANGED <<batch, ai, script, platform, now, fontDir, budget, sup, child>>

\* faulty variant: a failing mkdir is not caught and ends the request
InstallFontsThrows(j) ==
  /\ req[j].mode = "convert" /\ req[j].pc = "install"
  /\ LET d == req[j].downloadedFonts
         names == [n \in 1..Len(d) |-> d[n][4]]
         fresh == {n \in 1..Len(d) : names[n] \notin fontDir}
     IN \E mkdirOk \in BOOLEAN, failed \in SUBSET fresh, refreshed \in BOOLEAN :
        IF mkdirOk
        THEN /\ fontDir' = fontDir \cup {names[n] : n \in fresh \ failed}
             /\ req' = [req EXCEPT ![j] = [@ EXCEPT !.pc = "convert",
                   !.copied = @ \cup {names[n] : n \in fresh},
                   !.cache = IF refreshed THEN "removed" ELSE "failed",
                   !.hints = @ \o Picked([n \in 1..Len(d) |-> BaseName(names[n])],
                                         (1..Len(d)) \ failed, 1)]]
        ELSE /\ failed = {} /\ refreshed
             /\ fontDir' = fontDir
             /\ req' = [req EXCEPT ![j] = [@ EXCEPT !.pc = "error",
                                                   !.error = Err("", MkdirFailedMsg)]]
  /\ UNCHANGED <<batch, ai, script, platform, now, files, budget, sup, child>>

\* faulty variant: every downloaded font is copied, whether or not the font
\* directory has a file of that name
InstallFontsOverwrites(j) ==
  /\ req[j].mode = "convert" /\ req[j].pc = "install"
  /\ LET d == req[j].downloadedFonts
         names == [n \in 1..Len(d) |-> d[n][4]]
         fresh == 1..Len(d)
     IN \E mkdirOk \in BOOLEAN, failed \in SUBSET fresh, refreshed \in BOOLEAN :
        IF mkdirOk
        THEN /\ fontDir' = fontDir \cup {names[n] : n \in fresh \ failed}
             /\ req' = [req EXCEPT ![j] = [@ EXCEPT !.pc = "convert",
                   !.copied = @ \cup {names[n] : n \in fresh},
                   !.cache = IF refreshed THEN "removed" ELSE "failed",
                   !.hints = @ \o Picked([n \in 1..Len(d) |-> BaseName(names[n])],
                                         (1..Len(d)) \ failed, 1)]]
        ELSE /\ failed = {} /\ refreshed
             /\ fontDir' = fontDir
             /\ req' = [req EXCEPT ![j] = [@ EXCEPT !.pc = "convert",
                                                   !.downloadError = TRUE]]
  /\ UNCHANGED <<batch, ai, script, platform, now, files, budget, sup, child>>

\* lines 105-111 with installAdditionalFonts (336-390): the copies, then
\* "atsutil databases -remove" and, when that succeeded, the 3 s wait; a
\* failing mkdir is caught at line 115
InstallFonts(j) ==
  /\ req[j].mode = "convert" /\ req[j].pc = "install"
  /\ LET d == req[j].downloadedFonts
         names == [n \in 1..Len(d) |-> d[n][4]]
         fresh == {n \in 1..Len(d) : names[n] \notin fontDir}
     IN \E mkdirOk \in BOOLEAN, failed \in SUBSET fresh, refreshed \in BOOLEAN :
        IF mkdirOk
        THEN /\ fontDir' = fontDir \cup {names[n] : n \in fresh \ failed}
             /\ req' = [req EXCEPT ![j] = [@ EXCEPT !.pc = "convert",
                   !.copied = @ \cup {names[n] : n \in fresh},
                   !.cache = IF refreshed THEN "removed" ELSE "failed",
                   !.hints = @ \o Picked([n \in 1..Len(d) |-> BaseName(names[n])],
                                         (1..Len(d)) \ failed, 1)]]
        ELSE /\ failed = {} /\ refreshed
             /\ fontDir' = fontDir
             /\ req' = [req EXCEPT ![j] = [@ EXCEPT !.pc = "convert",
                                                   !.downloadError = TRUE]]
  /\ UNCHANGED <<batch, ai, script, platform, now, files, budget, sup, child>>

\* faulty variant: a retry that reports a retryable failure again starts
\* another round
HandleRetryResultLoops(j) ==
  /\ req[j].mode = "convert" /\ req[j].pc = "handle" /\ req[j].attempts >= 2
  /\ req' = [req EXCEPT ![j] =
       IF @.result.st = "ok" THEN [@ EXCEPT !.pc = "send"]
       ELSE IF IsRetryable(@.result) THEN [@ EXCEPT !.pc = "convert"]
       ELSE [@ EXCEPT !.pc = "error",
                      !.error = Err("INDESIGN_CONVERSION_FAILED", req[j].originalErrorMessage)]]
  /\ UNCHANGED <<batch, ai, script, platform, now, files, fontDir, budget, sup, child>>

\* faulty variant: the retry's own error is passed on
HandleRetryResultSurfacesRetry(j) ==
  /\ req[j].mode = "convert" /\ req[j].pc = "handle" /\ req[j].attempts = 2
  /\ req' = [req EXCEPT ![j] =
       IF @.result.st = "ok" THEN [@ EXCEPT !.pc = "send"]
       ELSE [@ EXCEPT !.pc = "error", !.error = req[j].result]]
  /\ UNCHANGED <<batch, ai, script, platform, now, files, fontDir, budget, sup, child>>

\* lines 126-138: the retry's outcome
HandleRetryResult(j) ==
  /\ req[j].mode = "convert" /\ req[j].pc = "handle" /\ req[j].attempts = 2
  /\ req' = [req EXCEPT ![j] =
       IF @.result.st = "ok" THEN [@ EXCEPT !.pc = "send"]
       ELSE [@ EXCEPT !.pc = "error",
                      !.error = Err("INDESIGN_CONVERSION_FAILED", req[j].originalErrorMessage)]]
  /\ UNCHANGED <<batch, ai, script, platform, now, files, fontDir, budget, sup, child>>

\* cleanupFiles([uploadedFilePath, extractPath, pdfPath])
CleanedUp(j) == files \ ({UploadPath(j)} \cup Under(ExtractPath(j)))

\* lines 145-154: the PDF is sent, then the temporary files are removed
SendPdf(j) ==
  /\ req[j].mode = "convert" /\ req[j].pc = "send"
  /\ files' = CleanedUp(j)
  /\ req' = [req EXCEPT ![j] = [@ EXCEPT !.pc = "done",
               !.response = [status |-> 200, code |-> "", msg |-> EmptyText]]]
  /\ UNCHANGED <<batch, ai, script, platform, now, fontDir, budget, sup, child>>

\* faulty variant: a timeout gets the generic answer
ErrorStatusNoTimeout(e) ==
  IF e.code = "INDESIGN_CONVERSION_FAILED" THEN 422
  ELSE IF e.code = "FILE_NOT_FOUND" \/ Includes(e.msg, NoInDesignFileText) THEN 400
  ELSE 500

\* lines 163-198: the status of the error response
ErrorStatus(e) ==
  IF e.code = "INDESIGN_CONVERSION_FAILED" THEN 422
  ELSE IF e.code = "FILE_NOT_FOUND" \/ Includes(e.msg, NoInDesignFileText) THEN 400
  ELSE IF Includes(e.msg, TimedOutText) THEN 504
  ELSE 500

\* faulty variant: the catch block also removes the fonts the request installed
HandleErrorRemovesFonts(j) ==
  /\ req[j].mode = "convert" /\ req[j].pc = "error"
  /\ files' = CleanedUp(j)
  /\ fontDir' = fontDir \ req[j].copied
  /\ req' = [req EXCEPT ![j] = [@ EXCEPT !.pc = "done",
               !.response = [status |-> ErrorStatus(req[j].error),
                             code |-> IF req[j].error.code = "" /\ ErrorStatus(req[j].error) = 500
                                      THEN "UNKNOWN_ERROR" ELSE req[j].error.code,
                             msg |-> req[j].error.msg,
                             isPreflight |-> /\ ErrorStatus(req[j].error) = 422
                                             /\ Includes(req[j].error.msg, PreflightFailedText)]]]
  /\ UNCHANGED <<batch, ai, script, platform, now, budget, sup, child>>

\* lines 156-199: the catch block
HandleError(j) ==
  /\ req[j].mode = "convert" /\ req[j].pc = "error"
  /\ files' = CleanedUp(j)
  /\ req' = [req EXCEPT ![j] = [@ EXCEPT !.pc = "done",
               !.response = [status |-> ErrorStatus(req[j].error),
                             code |-> IF req[j].error.code = "" /\ ErrorStatus(req[j].error) = 500
                                      THEN "UNKNOWN_ERROR" ELSE req[j].error.code,
                             msg |-> req[j].error.msg,
                             isPreflight |-> /\ ErrorStatus(req[j].error) = 422
                                             /\ Includes(req[j].error.msg, PreflightFailedText)]]]
  /\ UNCHANGED <<batch, ai, script, platform, now, fontDir, budget, sup, child>>

\* ------------------------------------------------ POST /api/acrobat-compare
\* lines 135-170: the two uploads are validated and Acrobat is looked for
CompareBegin(j) ==
  /\ req[j].mode = "compare" /\ req[j].pc = "recv"
  /\ \E outcome \in {"badcount", "noacrobat", "ok"} :
       /\ files' = IF outcome = "ok" THEN files \cup {Pdf1Path(j), Pdf2Path(j)} ELSE files
       /\ req' = [req EXCEPT ![j] =
            CASE outcome = "badcount" ->
                   [@ EXCEPT !.pc = "done", !.response = [status |-> 400, code |-> "",
                      msg |-> << <<"Exactly 2 PDF files are required for Acrobat comparison">> >>]]
              [] outcome = "noacrobat" ->
                   [@ EXCEPT !.pc = "done", !.response = [status |-> 503, code |-> "",
                      msg |-> << <<"Adobe Acrobat DC is not installed at">> >>]]
              [] outcome = "ok" -> [@ EXCEPT !.pc = "compare"]]
  /\ UNCHANGED <<batch, ai, script, platform, now, fontDir, budget, sup, child>>

\* comparePDFsWithAcrobat lines 329-357 and executeAcrobatComparison up to
\* line 682: the inputs are checked, then the output path and the script path
\* each read the clock
CompareStart(j) ==
  /\ req[j].mode = "compare" /\ req[j].pc = "compare"
  /\ IF Pdf1Path(j) \notin files \/ Pdf2Path(j) \notin files
     THEN /\ req' = [req EXCEPT ![j] = [@ EXCEPT !.attempts = @ + 1, !.pc = "respond",
                       !.result = Err("FILE_NOT_FOUND", PdfNotFoundMsg)]]
          /\ UNCHANGED <<now, sup>>
     ELSE \E t \in Clock : \E t2 \in t .. Min(t + 1, MaxTime) :
          /\ now' = t2
          /\ req' = [req EXCEPT ![j] = [@ EXCEPT !.attempts = @ + 1, !.pc = "write_as"]]
          /\ sup' = [sup EXCEPT ![j] = [NoSup EXCEPT !.pdfPath = ComparisonPath(t),
                                           !.appleScriptPath = AcrobatScriptPath(t2)]]
  /\ UNCHANGED <<batch, ai, script, platform, files, fontDir, budget, child>>

\* lines 686-729: the script file is written; then the timer is set and
\* osascript is spawned
CompareSpawn(j) ==
  /\ req[j].mode = "compare" /\ req[j].pc = "write_as"
  /\ \/ \E launched \in BOOLEAN :
          /\ files' = files \cup {sup[j].appleScriptPath}
          /\ sup' = [sup EXCEPT ![j] = Spawned(@)]
          /\ child' = [child EXCEPT ![j] = NewChild(launched)]
          /\ req' = [req EXCEPT ![j] = [@ EXCEPT !.pc = "await", !.spawns = @ + 1]]
     \/ \* the write fails: reject(writeError)
        /\ sup' = [sup EXCEPT ![j] = Settle(@, Err("", WriteFailedMsg))]
        /\ req' = Set(req, j, "pc", "await")
        /\ UNCHANGED <<files, child>>
  /\ UNCHANGED <<batch, ai, script, platform, now, fontDir, budget>>

\* Acrobat saves a compare report into the output folder; the folder is shared
\* by all comparisons, so a report under another candidate name can be there too
AcrobatSaves(j) ==
  /\ req[j].mode = "compare" /\ child[j].state = "running"
  /\ \E n \in SavedNames(j) :
       /\ ReportPath(n) \notin files
       /\ files' = files \cup {ReportPath(n)}
  /\ UNCHANGED <<batch, ai, script, platform, now, fontDir, budget, req, sup, child>>

\* lines 702-709: the timeout timer
CompareTimeout(j) ==
  /\ req[j].mode = "compare" /\ sup[j].timeout = "armed"
  /\ child' = [child EXCEPT ![j] = Kill(@, "SIGTERM")]
  /\ sup' = [sup EXCEPT ![j] =
         Settle([@ EXCEPT !.timeout = "fired", !.timedOut = TRUE],
                Err("TIMEOUT", AcrobatTimeoutMsg))]
  /\ UNCHANGED <<batch, ai, script, platform, now, files, fontDir, budget, req>>

\* lines 731-739: the 'error' event of a child that could not be spawned
CompareOnError(j) ==
  /\ req[j].mode = "compare"
  /\ child[j].state = "failed" /\ ~child[j].errored
  /\ child' = Set(child, j, "errored", TRUE)
  /\ LET s == [sup[j] EXCEPT !.timeout = ClearTimeout(@)]
     IN  sup' = [sup EXCEPT ![j] =
           IF ~s.timedOut THEN Settle(s, Err("APPLESCRIPT_ERROR", AppleScriptErrorMsg))
           ELSE s]
  /\ UNCHANGED <<batch, ai, script, platform, now, files, fontDir, budget, req>>

\* `Acrobat comparison failed with code ${code}.`
FailedWithCode(code) ==
  << << IF code = 1 THEN "Acrobat comparison failed with code 1."
        ELSE IF code = 0 THEN "Acrobat comparison failed with code 0."
        ELSE "Acrobat comparison failed with code null." >> >>

\* a + b on texts: b goes on behind a's last line
Concat(a, b) ==
  IF b = << >> THEN a
  ELSE SubSeq(a, 1, Len(a) - 1) \o <<a[Len(a)] \o b[1]>> \o Tail(b)

\* stdout.includes("ERROR:") || stdout.includes("COMPARISON_FAILED")
ComparisonFailedText == {"COMPARISON_FAILED"}
CompareFailed(code, out) ==
  code # 0 \/ Includes(out, ErrorMarker) \/ Includes(out, ComparisonFailedText)

\* lines 766-772: the message of the ACROBAT_EXECUTION_FAILED error; no chunk
\* of the alphabet holds a phrase that adds one of the tips of lines 775-783
CompareErrorMessage(code, out, err) ==
  LET m1 == IF out # << >> THEN Concat(Concat(FailedWithCode(code), << <<"Output:">> >>), out)
            ELSE FailedWithCode(code)
  IN  IF err # << >> THEN Concat(Concat(m1, << <<"Error:">> >>), err) ELSE m1

\* lines 741-795: the 'close' event
CompareOnClose(j) ==
  /\ req[j].mode = "compare"
  /\ child[j].state = "exited" \/ (child[j].state = "failed" /\ child[j].errored)
  /\ child' = Set(child, j, "state", "closed")
  /\ LET code == ClosingCode(child[j])
         s == [sup[j] EXCEPT !.timeout = ClearTimeout(@),
                             !.classified = ~sup[j].timedOut]
     IN  sup' = [sup EXCEPT ![j] =
           Released(IF s.timedOut THEN s
                    ELSE IF CompareFailed(code, s.stdout)
                    THEN Settle(s, Err("ACROBAT_EXECUTION_FAILED",
                                       CompareErrorMessage(code, s.stdout, s.stderr)))
                    ELSE [s EXCEPT !.settle = "armed"])]
  /\ UNCHANGED <<batch, ai, script, platform, now, files, fontDir, budget, req>>

\* faulty variant: the last candidate that exists is taken
savedFilePathLast(j, n) ==
  LET there == {m \in n .. Len(possibleNames(j)) : ReportPath(possibleNames(j)[m]) \in files}
  IN  IF there = {} THEN NoPath
      ELSE ReportPath(possibleNames(j)[CHOOSE m \in there : \A k \in there : k <= m])

\* the first candidate of possibleNames that exists, NoPath when none does
RECURSIVE savedFilePath(_, _)
savedFilePath(j, n) ==
  IF n > Len(possibleNames(j)) THEN NoPath
  ELSE IF ReportPath(possibleNames(j)[n]) \in files THEN ReportPath(possibleNames(j)[n])
       ELSE savedFilePath(j, n + 1)

\* lines 796-848: 10 s after a clean close the report is looked for and
\* renamed, the script file is removed and the promise resolved
CompareSettle(j) ==
  /\ req[j].mode = "compare" /\ sup[j].settle = "armed"
  /\ LET found == savedFilePath(j, 1) IN
     \E renamed \in BOOLEAN :
       /\ (found = NoPath => renamed)
       /\ files' = (IF found # NoPath /\ renamed
                    THEN (files \ {found}) \cup {sup[j].pdfPath} ELSE files)
                   \ {sup[j].appleScriptPath}
  /\ sup' = [sup EXCEPT ![j] = Settle([@ EXCEPT !.settle = "fired"], Ok)]
  /\ UNCHANGED <<batch, ai, script, platform, now, fontDir, budget, req, child>>

\* comparePDFsWithAcrobat lines 359-386: the artifact check and the catch
\* block's default code
CompareFinish(j) ==
  /\ req[j].mode = "compare" /\ req[j].pc = "await" /\ sup[j].promise.st # "pending"
  /\ LET p == sup[j].promise IN
     req' = [req EXCEPT ![j] = [@ EXCEPT !.pc = "respond", !.pending = p, !.result =
        IF p.st = "ok"
        THEN IF sup[j].pdfPath \in files THEN Ok
             ELSE Err("PDF_NOT_GENERATED", ComparisonNotGeneratedMsg)
        ELSE IF p.code = "" THEN Err("ACROBAT_ERROR", p.msg) ELSE p]]
  /\ UNCHANGED <<batch, ai, script, platform, now, files, fontDir, budget, sup, child>>

\* route lines 221-260: the status of the error response
CompareStatus(e) ==
  IF e.code = "FILE_NOT_FOUND" THEN 400
  ELSE IF e.code = "TIMEOUT" THEN 408
  ELSE 500

\* route lines 175-260: the report is streamed, or the error answered; the
\* uploads, and the report once it was returned, are deleted
CompareRespond(j) ==
  /\ req[j].mode = "compare" /\ req[j].pc = "respond"
  /\ LET r == req[j].result IN
     /\ files' = files \ ({Pdf1Path(j), Pdf2Path(j)} \cup
                          (IF r.st = "ok" THEN {sup[j].pdfPath} ELSE {}))
     /\ req' = [req EXCEPT ![j] = [@ EXCEPT !.pc = "done", !.error = r, !.response =
          IF r.st = "ok" THEN [status |-> 200, code |-> "", msg |-> EmptyText]
          ELSE [status |-> CompareStatus(r), code |-> r.code, msg |-> r.msg]]]
  /\ UNCHANGED <<batch, ai, script, platform, now, fontDir, budget, sup, child>>

\* ------------------------------------------------------- specification
Init ==
  /\ batch = [pc |-> "off"]
  /\ ai = [pc |-> "off"]
  /\ script = NoScript
  /\ platform \in Platforms
  /\ now = 0
  /\ files = {}
  /\ fontDir = {}
  /\ budget = MaxOut
  /\ \E m \in {"convert", "compare"} :
       req = [j \in Jobs |-> IF j = "A" THEN [NoReq EXCEPT !.mode = m, !.pc = "recv"]
                             ELSE NoReq]
  /\ sup = [j \in Jobs |-> NoSup]
  /\ child = [j \in Jobs |-> NoChild]

Next ==
  \E j \in Jobs :
    \/ UploadBegin(j) \/ ExternalRemove(j) \/ ConvertBegin(j) \/ WriteScript(j)
    \/ RunInDesignWithScript(j) \/ SpawnOsascript(j)
    \/ StdoutData(j) \/ StderrData(j) \/ ChildExports(j) \/ ChildExits(j)
    \/ ConvertTimeout(j) \/ ConvertKillTimer(j) \/ ConvertOnError(j) \/ ConvertOnClose(j)
    \/ ExecuteScriptCleanup(j) \/ ConvertFinish(j)
    \/ HandleFirstResult(j) \/ DownloadFonts(j) \/ InstallFonts(j) \/ HandleRetryResult(j)
    \/ SendPdf(j) \/ HandleError(j)
    \/ CompareBegin(j) \/ CompareStart(j) \/ CompareSpawn(j) \/ AcrobatSaves(j)
    \/ CompareTimeout(j) \/ CompareOnError(j) \/ CompareOnClose(j) \/ CompareSettle(j)
    \/ CompareFinish(j) \/ CompareRespond(j)

Spec == Init /\ [][Next]_vars

\* ---------------------------------------------- two requests in flight
\* both requests are conversions that were accepted together; the children
\* write nothing and no timer expires
InitConc ==
  /\ batch = [pc |-> "off"]
  /\ ai = [pc |-> "off"]
  /\ script = NoScript
  /\ platform \in {"darwin", "win32"}
  /\ now = 0
  /\ files = {}
  /\ fontDir = {}
  /\ budget = 0
  /\ req = [j \in Jobs |-> [NoReq EXCEPT !.mode = "convert", !.pc = "recv"]]
  /\ sup = [j \in Jobs |-> NoSup]
  /\ child = [j \in Jobs |-> NoChild]

NextConc ==
  \E j \in Jobs :
    \/ UploadBegin(j) \/ ConvertBegin(j) \/ WriteScript(j)
    \/ RunInDesignWithScript(j) \/ SpawnOsascript(j)
    \/ ChildExports(j) \/ ChildExits(j) \/ ConvertOnClose(j)
    \/ ExecuteScriptCleanup(j) \/ ConvertFinish(j)
    \/ HandleFirstResult(j) \/ SendPdf(j) \/ HandleError(j)

SpecConc == InitConc /\ [][NextConc]_vars

\* ------------------------------------ remediation after a font diagnostic
\* display names doc.fonts can yield: a hyphenated name, a name with its
\* (family style) suffix, a name with a dot in its style, a lower-case name
FontNames == {"Solway-Bold", "Poppins-Regular (Poppins Regular)",
              "Trade Gothic LT Std Bold No. 2", "eurofurence light"}

\* the lists of one to MaxFonts different fonts
NameLists ==
  UNION {{l \in [1..n -> FontNames] : \A a, b \in 1..n : a # b => l[a] # l[b]}
         : n \in 1..MaxFonts}

\* buildErrorMessage's missing fonts block for the listed names, as the
\* script's catch block prints it
FontsDiagnostic(names, ender) ==
  << <<"ERROR:", "Document has critical errors">>,
     << >>,
     <<"*", "Missing Fonts", "(N):">>,
     <<"The", "following fonts are", "NOT in your Document fonts folder:">>,
     << >> >>
  \o [n \in 1..Len(names) |-> <<"-", names[n]>>]
  \o ender

\* the names a diagnostic lists: its "  - name" lines, in order
RECURSIVE Listed(_)
Listed(text) ==
  IF text = << >> THEN << >>
  ELSE (IF Len(Head(text)) = 2 /\ Head(text)[1] = "-" THEN <<Head(text)[2]>> ELSE << >>)
       \o Listed(Tail(text))

\* the first attempt of a conversion on macOS has just failed with a missing
\* fonts diagnostic: the child closed with code 1 and the close handler
\* rejected with the cleaned message
InitRemedy ==
  /\ batch = [pc |-> "off"]
  /\ ai = [pc |-> "off"]
  /\ script = NoScript
  /\ platform = "darwin"
  /\ now = 0
  /\ budget = 0
  \* fonts earlier requests may have left in ~/Library/Fonts
  /\ fontDir \in SUBSET {FontFile("solway-bold"), FontFile("poppins-regular")}
  /\ files = {UploadPath("A"), ExtractPath("A"), InddPath("A"), ScptPath(JsxPath(0))}
  \* after the list: the blank line and the "Solutions:" block, or a
  \* "Solutions:" line directly
  /\ \E names \in NameLists,
        ender \in { << << >>, <<"Solutions:">>,
                       <<"1.", "Add the missing font files to the 'Document fonts' folder in your zip file">> >>,
                    << <<"Solutions:">> >> },
        hints \in {<< >>} \cup HintChoices :
       LET e == Err("INDESIGN_CONVERSION_FAILED",
                    ConvertErrorMessage(1, FontsDiagnostic(names, ender), EmptyText))
       IN
       /\ req = [j \in Jobs |->
                   IF j = "A"
                   THEN [NoReq EXCEPT !.mode = "convert", !.pc = "handle",
                                      !.attempts = 1, !.spawns = 1, !.hints = hints,
                                      !.pending = e, !.result = e]
                   ELSE NoReq]
       /\ sup = [j \in Jobs |->
                   IF j = "A"
                   THEN [NoSup EXCEPT !.scriptPath = JsxPath(0),
                                      !.appleScriptPath = ScptPath(JsxPath(0)),
                                      !.pdfPath = PdfPath("A"),
                                      !.isResolved = TRUE, !.timeout = "cleared",
                                      !.classified = TRUE, !.fontNames = hints,
                                      !.promise = e]
                   ELSE NoSup]
  /\ child = [j \in Jobs |->
                IF j = "A" THEN [NoChild EXCEPT !.state = "closed", !.code = 1]
                ELSE NoChild]

\* the remediation steps, and the retry up to its spawn
NextRemedy ==
  \E j \in Jobs :
    \/ HandleFirstResult(j) \/ DownloadFonts(j) \/ InstallFonts(j)
    \/ ConvertBegin(j) \/ WriteScript(j) \/ RunInDesignWithScript(j) \/ SpawnOsascript(j)

SpecRemedy == InitRemedy /\ [][NextRemedy]_vars

\* ------------------------------------------- the generated ExtendScript
\* String.toLowerCase on the words of the font names
Lower(tok) ==
  CASE tok = "Poppins" -> "poppins"
    [] tok = "Solway" -> "solway"
    [] tok = "Regular" -> "regular"
    [] tok = "Bold" -> "bold"
    [] tok = ".INDD" -> ".indd"
    [] OTHER -> tok

\* name.toLowerCase().replace(/[\s-_]/g, '')
RECURSIVE Normalize(_)
Normalize(name) ==
  IF name = << >> THEN << >>
  ELSE (IF Head(name) \in {" ", "\t", "-", "_"} THEN << >> ELSE <<Lower(Head(name))>>)
       \o Normalize(Tail(name))

\* hay.indexOf(needle) >= 0
Contains(hay, needle) ==
  \E i \in 0 .. (Len(hay) - Len(needle)) : SubSeq(hay, i + 1, i + Len(needle)) = needle

\* lines 79-97
isFontAvailable(missingFontName) ==
  /\ script.availableFonts # << >>
  /\ \E i \in 1 .. Len(script.availableFonts) :
       \/ Contains(Normalize(missingFontName), Normalize(script.availableFonts[i]))
       \/ Contains(Normalize(script.availableFonts[i]), Normalize(missingFontName))

\* lines 474-477: fontName, followed by " (" + fontFamily + " " + fontStyle + ")"
\* when one of the two is not empty
DisplayName(font) ==
  IF font.fontFamily = << >> /\ font.fontStyleName = << >> THEN font.name
  ELSE font.name \o <<" ", "(">> \o font.fontFamily \o <<" ">> \o font.fontStyleName
         \o <<")">>

\* lines 463-488: a font that is not available and that isFontAvailable finds
\* for none of its base name, its family and its display name
FontIsReported(font) ==
  /\ font.status = "NOT_AVAILABLE"
  /\ ~ \/ isFontAvailable(font.name)
       \/ isFontAvailable(font.fontFamily)
       \/ isFontAvailable(DisplayName(font))

\* lines 546-558
LinkIsMissing(link) == link.status = "LINK_MISSING"
LinkIsCorrupt(link) == link.status = "NORMAL" /\ ~link.exists

\* lines 448-598; linksThrow: reading doc.links throws into the outer catch
buildErrorMessage(doc, linksThrow) ==
  LET missingFonts == SelectSeq(doc.fonts, FontIsReported)
      missingLinks == IF linksThrow THEN << >> ELSE SelectSeq(doc.links, LinkIsMissing)
      corruptLinks == IF linksThrow THEN << >> ELSE SelectSeq(doc.links, LinkIsCorrupt)
      hasErrors == missingFonts # << >> \/ missingLinks # << >> \/ corruptLinks # << >>
  IN  IF hasErrors
      THEN << <<"Document has critical errors">>, missingFonts, missingLinks, corruptLinks >>
      ELSE << >>

\* doc.fonts entries: name, family and style as InDesign gives them, and the
\* status; "ERROR" stands for a font whose properties cannot be read.  The last
\* font is one whose fontFamily and fontStyleName cannot be read or are empty:
\* lines 464-473 take "" for them.
FontOf(family, style, status) ==
  [name |-> <<family, "\t", style>>, fontFamily |-> <<family>>,
   fontStyleName |-> <<style>>, status |-> status]

DocFonts ==
  {FontOf(f[1], f[2], st) : f \in {<<"Poppins", "Regular">>, <<"Poppins", "Bold">>,
                                   <<"Solway", "Bold">>},
                            st \in {"INSTALLED", "NOT_AVAILABLE"}}
  \cup {FontOf("Solway", "Bold", "ERROR")}
  \cup {[FontOf("Solway", "Bold", "NOT_AVAILABLE") EXCEPT !.fontFamily = << >>,
                                                           !.fontStyleName = << >>]}

DocLinks ==
  {[status |-> "NORMAL", exists |-> TRUE], [status |-> "NORMAL", exists |-> FALSE],
   [status |-> "LINK_MISSING", exists |-> FALSE],
   [status |-> "LINK_EMBEDDED", exists |-> FALSE]}

\* availableFontNames handed to the script: base names of the fonts found in
\* the package's "Document fonts" folder
AvailableChoices == {<< >>, << <<"Poppins", "-", "Regular">> >>}

\* the script is about to run on a document, or on a book
InitScript ==
  /\ batch = [pc |-> "off"]
  /\ ai = [pc |-> "off"]
  /\ platform = "darwin"
  /\ now = 0
  /\ files = {}
  /\ fontDir = {}
  /\ budget = 0
  /\ req = [j \in Jobs |-> NoReq]
  /\ sup = [j \in Jobs |-> NoSup]
  /\ child = [j \in Jobs |-> NoChild]
  /\ \E book \in BOOLEAN, avail \in AvailableChoices :
     \E nf \in 0 .. MaxItems, nl \in 0 .. MaxItems :
     \E fonts \in (IF book THEN {<< >>} ELSE [1..nf -> DocFonts]),
        links \in (IF book THEN {<< >>} ELSE [1..nl -> DocLinks]) :
       script = [NoScript EXCEPT !.pc = "start", !.isBook = book, !.fonts = fonts,
                                 !.links = links, !.availableFonts = avail]

\* faulty variant: the catch block prints the error and rethrows it
ScriptThrowLeavesOpen(s, message) ==
  [s EXCEPT !.pc = "failed", !.stdout = << <<"ERROR:">> \o message >>]

\* lines 696-716: the catch block prints the error, closes the document or
\* book when one was opened, and asks InDesign to quit; the run ends
ScriptThrow(s, message) ==
  [s EXCEPT !.pc = "failed", !.stdout = << <<"ERROR:">> \o message >>,
            !.closed = s.opened, !.quit = TRUE]

\* lines 609-633: the source file is looked up and opened
ScriptOpen ==
  /\ script.pc = "start"
  /\ \E exists \in BOOLEAN, opens \in BOOLEAN :
       script' = IF ~exists THEN ScriptThrow(script, <<"Source file not found">>)
                 ELSE IF ~opens THEN ScriptThrow(script, <<"Failed to open file.">>)
                 ELSE [script EXCEPT !.pc = "opened", !.opened = TRUE]
  /\ UNCHANGED <<batch, ai, platform, now, files, fontDir, budget, req, sup, child>>

\* lines 637-646: a document's fonts and links are checked; on errors the
\* document is closed and InDesign asked to quit before the throw
ScriptCheckDocument ==
  /\ script.pc = "opened" /\ ~script.isBook
  /\ \E linksThrow \in BOOLEAN :
       LET errorMessage == buildErrorMessage(script, linksThrow)
           s == [script EXCEPT !.errorMessage = errorMessage, !.warned = linksThrow]
       IN  script' = IF errorMessage # << >>
                     THEN ScriptThrow([s EXCEPT !.closed = TRUE, !.quit = TRUE],
                                      <<"Document has critical errors">>)
                     ELSE [s EXCEPT !.pc = "export"]
  /\ UNCHANGED <<batch, ai, platform, now, files, fontDir, budget, req, sup, child>>

\* lines 647-658: a book is preflighted; what InDesign's preflight finds is
\* not determined by the script
ScriptCheckBook ==
  /\ script.pc = "opened" /\ script.isBook
  /\ \E preflightErrors \in {<< >>, << <<"Book has errors">> >>} :
       LET s == [script EXCEPT !.errorMessage = preflightErrors]
       IN  script' = IF preflightErrors # << >>
                     THEN ScriptThrow([s EXCEPT !.closed = TRUE, !.quit = TRUE],
                                      <<"Preflight Failed">>)
                     ELSE [s EXCEPT !.pc = "export"]
  /\ UNCHANGED <<batch, ai, platform, now, files, fontDir, budget, req, sup, child>>

\* lines 661-694: exportFile runs; the PDF is there afterwards, the file is
\* closed and InDesign asked to quit, or the export failed
ScriptExport ==
  /\ script.pc = "export"
  /\ \E created \in BOOLEAN :
       script' = IF created THEN [script EXCEPT !.pc = "done", !.exported = TRUE,
                                                !.closed = TRUE, !.quit = TRUE]
                 ELSE [ScriptThrow(script, <<"PDF export failed:">>) EXCEPT !.exported = TRUE]
  /\ UNCHANGED <<batch, ai, platform, now, files, fontDir, budget, req, sup, child>>

NextScript == ScriptOpen \/ ScriptCheckDocument \/ ScriptCheckBook \/ ScriptExport

SpecScript == InitScript /\ [][NextScript]_vars

\* ------------------------------------------- classification of a closed run
\* the child of the first attempt of a conversion, or of a comparison, has
\* exited on macOS before the timeout; stdout and stderr hold what it wrote:
\* up to MaxOut chunks, among them a duplicate-class warning line that holds
\* the error marker
InitClose ==
  /\ batch = [pc |-> "off"]
  /\ ai = [pc |-> "off"]
  /\ script = NoScript
  /\ platform = "darwin"
  /\ now = 0
  /\ fontDir = {}
  /\ budget = 0
  /\ \E mode \in {"convert", "compare"}, code \in ExitCodes, made \in BOOLEAN :
     LET chunks == Chunks \cup
                   {<< <<"objc[", "Class AdobeSimpleURLSession", "ERROR:",
                         "is implemented in both">> >>}
         writes == UNION {[1..n -> chunks] : n \in 0..MaxOut}
     IN
     \E out \in writes, err \in writes :
       /\ Len(out) + Len(err) <= MaxOut
       /\ files = IF mode = "convert"
                  THEN {UploadPath("A"), ExtractPath("A"), InddPath("A"), JsxPath(0),
                        ScptPath(JsxPath(0))}
                       \cup (IF made THEN {PdfPath("A")} ELSE {})
                  ELSE {Pdf1Path("A"), Pdf2Path("A"), AcrobatScriptPath(0)}
                       \cup (IF made THEN {ReportPath(Pdf2Name("A"))} ELSE {})
       /\ req = [j \in Jobs |->
                   IF j = "A"
                   THEN [NoReq EXCEPT !.mode = mode, !.pc = "await",
                                      !.attempts = 1, !.spawns = 1]
                   ELSE NoReq]
       /\ sup = [j \in Jobs |->
                   IF j = "A"
                   THEN [Spawned(IF mode = "convert"
                                 THEN [NoSup EXCEPT !.scriptPath = JsxPath(0),
                                          !.appleScriptPath = ScptPath(JsxPath(0)),
                                          !.pdfPath = PdfPath("A")]
                                 ELSE [NoSup EXCEPT !.pdfPath = ComparisonPath(0),
                                          !.appleScriptPath = AcrobatScriptPath(0)])
                           EXCEPT !.stdout = Flatten(out), !.stderr = Flatten(err)]
                   ELSE NoSup]
       /\ child = [j \in Jobs |->
                     IF j = "A" THEN [NoChild EXCEPT !.state = "exited", !.code = code]
                     ELSE NoChild]

NextClose ==
  \E j \in Jobs :
    \/ ConvertOnClose(j) \/ ExecuteScriptCleanup(j) \/ ConvertFinish(j)
    \/ CompareOnClose(j) \/ CompareSettle(j) \/ CompareFinish(j)

SpecClose == InitClose /\ [][NextClose]_vars


\* ------------------------------------------- scripts/batchConvert.js
\* zipHandler.js lines 50-78, on the entries readdir returns for a directory.
\* A name is its sequence of parts: name[1] = "." for a dot name, and the last
\* part of a longer name is its extension.  The result is the path below the
\* searched directory, << >> for null.
RECURSIVE findInDesignFile(_)
findInDesignFile(entries) ==
  IF entries = << >> THEN << >>
  ELSE LET entry == Head(entries)
           ext == IF Len(entry.name) > 1 THEN Lower(entry.name[Len(entry.name)]) ELSE ""
           found == IF entry.isDirectory /\ entry.name[1] # "." /\ entry.name # <<"__MACOSX">>
                    THEN findInDesignFile(entry.entries) ELSE << >>
       IN  IF entry.isDirectory
           THEN IF found # << >> THEN <<entry.name>> \o found
                ELSE findInDesignFile(Tail(entries))
           ELSE IF ext \in {".indd", ".idml"} THEN <<entry.name>>
                ELSE findInDesignFile(Tail(entries))

\* faulty variant: every failure is taken for a lost connection
isNetworkConnectionErrorAlways(error) == error # EmptyText

\* lines 38-43: the lower-cased message holds one of the three phrases
isNetworkConnectionError(error) ==
  Includes(error, {"The network connection was lost.",
                   "The file was modified by another process.",
                   "Save failed: file was modified"})

\* the source folder holds up to MaxZips zip files; nothing is processed yet
InitBatch ==
  /\ ai = [pc |-> "off"]
  /\ script = NoScript
  /\ platform = "darwin"
  /\ now = 0
  /\ files = {}
  /\ fontDir = {}
  /\ budget = 0
  /\ req = [j \in Jobs |-> NoReq]
  /\ sup = [j \in Jobs |-> NoSup]
  /\ child = [j \in Jobs |-> NoChild]
  /\ LET File(name) == [name |-> name, isDirectory |-> FALSE, entries |-> << >>]
         Dir(name, entries) == [name |-> name, isDirectory |-> TRUE, entries |-> entries]
         packages ==
           { << File(<<"doc", ".indd">>) >>,
             << File(<<"DOC", ".INDD">>) >>,
             << File(<<"book", ".indb">>) >>,
             << Dir(<<"__MACOSX">>, << File(<<"._doc", ".indd">>) >>),
                Dir(<<"pkg">>, << File(<<"Links", ".txt">>), File(<<"doc", ".idml">>) >>) >>,
             << Dir(<<".", "trash">>, << File(<<"old", ".indd">>) >>) >>,
             << Dir(<<"pkg">>, << File(<<"book", ".indb">>), File(<<"ch1", ".indd">>) >>) >> }
         zips == {[valid |-> TRUE, entries |-> p] : p \in packages}
                   \cup {[valid |-> FALSE, entries |-> << >>]}
     IN  \E n \in 1 .. MaxZips : \E zipFiles \in [1..n -> zips] :
           batch = [pc |-> "loop", zipFiles |-> zipFiles, i |-> 1, retryCount |-> 0,
                    pdfPath |-> NoPath, successCount |-> 0, errorCount |-> 0,
                    errors |-> << >>, dirs |-> {},
                    log |-> [k \in 1..n |-> << >>], found |-> [k \in 1..n |-> << >>]]

\* lines 149-253: one pass of the retry loop for zip file i, its catch and its
\* finally block included.  dirs holds the extraction directories that exist,
\* log the message each attempt on a zip ended with (empty on success), found
\* what findInDesignFile returned.  fs.rm(..., {recursive, force}) succeeds.
BatchAttempt ==
  /\ batch.pc = "loop"
  /\ \E extracts \in BOOLEAN, copies \in BOOLEAN,
        conversion \in {EmptyText,
                        << <<"InDesign conversion failed:", "The network connection was lost.">> >>,
                        << <<"InDesign conversion failed:", "Save failed: file was modified">> >>,
                        << <<"InDesign conversion failed:", "Missing Fonts">> >>} :
       LET i == batch.i
           zip == batch.zipFiles[i]
           validated == batch.retryCount # 0 \/ zip.valid
           extractPath == IF validated THEN <<"extract", i, batch.retryCount>> ELSE NoPath
           indesignFile == findInDesignFile(zip.entries)
           error == IF ~validated THEN << <<"Invalid or corrupt zip file">> >>
                    ELSE IF ~extracts THEN << <<"Failed to extract zip file:">> >>
                    ELSE IF indesignFile = << >> THEN NoInDesignFileMsg
                    ELSE IF conversion # EmptyText THEN conversion
                    ELSE IF ~copies THEN << <<"ENOSPC: no space left on device, copyfile">> >>
                    ELSE EmptyText
           converted == validated /\ extracts /\ indesignFile # << >> /\ conversion = EmptyText
           pdfPath == IF converted THEN extractPath \o <<"doc.pdf">> ELSE batch.pdfPath
           retry == error # EmptyText /\ isNetworkConnectionError(error)
                      /\ batch.retryCount < MAX_RETRIES
           retryCount == IF retry THEN batch.retryCount + 1 ELSE batch.retryCount
           created == IF validated /\ extracts THEN {extractPath} ELSE {}
           removed == IF extractPath # NoPath
                         /\ (retry \/ retryCount > MAX_RETRIES \/ pdfPath # NoPath)
                      THEN {extractPath} ELSE {}
           last == i = Len(batch.zipFiles)
           b == [batch EXCEPT !.dirs = (@ \cup created) \ removed,
                              !.log[i] = Append(@, error),
                              !.found[i] = IF validated /\ extracts THEN indesignFile ELSE @]
       IN  batch' =
             IF retry THEN [b EXCEPT !.retryCount = retryCount, !.pdfPath = pdfPath]
             ELSE [b EXCEPT !.i = @ + 1, !.retryCount = 0, !.pdfPath = NoPath,
                            !.pc = IF last THEN "done" ELSE "loop",
                            !.successCount = IF error = EmptyText THEN @ + 1 ELSE @,
                            !.errorCount = IF error = EmptyText THEN @ ELSE @ + 1,
                            !.errors = IF error = EmptyText THEN @
                                       ELSE Append(@, [filename |-> i, error |-> error])]
  /\ UNCHANGED <<ai, script, platform, now, files, fontDir, budget, req, sup, child>>

NextBatch == BatchAttempt

SpecBatch == InitBatch /\ [][NextBatch]_vars


\* ------------------------------------ openaiService.js: comparePDFsDirectly
\* lines 434-459: identicalPairs.forEach with the groups built so far and the
\* set of processed names; allFiles is not read
groupIdenticalFiles(identicalPairs, allFiles) ==
  LET includes(g, f) == \E x \in 1..Len(g) : g[x] = f
      RECURSIVE forEach(_, _, _)
      forEach(k, groups, processed) ==
        IF k > Len(identicalPairs) THEN groups
        ELSE LET file1 == identicalPairs[k][1]
                 file2 == identicalPairs[k][2]
                 hits == {g \in 1..Len(groups) :
                            includes(groups[g], file1) \/ includes(groups[g], file2)}
                 e == CHOOSE g \in hits : \A h \in hits : g <= h
                 g1 == IF includes(groups[e], file1) THEN groups[e]
                       ELSE Append(groups[e], file1)
                 g2 == IF includes(g1, file2) THEN g1 ELSE Append(g1, file2)
             IN  IF file1 \in processed \/ file2 \in processed
                 THEN IF hits = {} THEN forEach(k + 1, groups, processed)
                      ELSE forEach(k + 1, [groups EXCEPT ![e] = g2], processed)
                 ELSE forEach(k + 1, Append(groups, <<file1, file2>>),
                              processed \cup {file1, file2})
  IN  IF identicalPairs = << >> THEN << >> ELSE forEach(1, << >>, {})

\* lines 177-199: the function was called with 2..MaxFiles PDFs and has started
\* one files.create call per PDF; none has settled
InitAi ==
  /\ batch = [pc |-> "off"]
  /\ script = NoScript
  /\ platform = "darwin"
  /\ now = 0
  /\ files = {}
  /\ fontDir = {}
  /\ budget = 0
  /\ req = [j \in Jobs |-> NoReq]
  /\ sup = [j \in Jobs |-> NoSup]
  /\ child = [j \in Jobs |-> NoChild]
  /\ \E n \in 2 .. MaxFiles :
       ai = [pc |-> "uploading",
             pdfFiles |-> [f \in 1..n |-> <<"a.pdf", "b.pdf", "c.pdf", "d.pdf", "e.pdf">>[f]],
             upload |-> [f \in 1..n |-> "pending"],
             uploadedFileIds |-> << >>, remoteFiles |-> {},
             assistant |-> "null", thread |-> "null",
             identicalPairs |-> << >>, identicalGroups |-> << >>,
             cleanupError |-> "none", inFlight |-> {}]

\* lines 193-208: one files.create call settles; on success the service holds
\* the file and its id is pushed, also when the function has settled meanwhile
AiUploadSettles ==
  /\ ai.pc # "off"
  /\ \E f \in 1 .. Len(ai.pdfFiles), ok \in BOOLEAN :
       /\ ai.upload[f] = "pending"
       /\ ai' = IF ok THEN [ai EXCEPT !.upload[f] = "uploaded",
                                      !.uploadedFileIds = Append(@, f),
                                      !.remoteFiles = @ \cup {f}]
                ELSE [ai EXCEPT !.upload[f] = "failed"]
  /\ UNCHANGED <<batch, script, platform, now, files, fontDir, budget, req, sup, child>>

\* lines 191-310 once Promise.all has settled: it resolves when every upload
\* succeeded and rejects with the first failure.  The assistant and the thread
\* are created, the pairs compared (i < j) and grouped; any call may throw.
\* The finally block deletes the assistant, the thread and the files whose ids
\* were pushed so far, in one try block: the first delete that throws
\* (cleanupError) ends the cleanup.  Uploads still in flight only push ids, so
\* the awaits of this part are taken in one step.
AiSettle ==
  /\ ai.pc = "uploading"
  /\ LET n == Len(ai.pdfFiles)
         uploaded == \A f \in 1..n : ai.upload[f] = "uploaded"
         pairs == {p \in (1..n) \X (1..n) : p[1] < p[2]}
         \* the pairs in the order of the two nested loops
         RECURSIVE loop(_, _, _)
         loop(i, j, identical) ==
           IF i > n THEN << >>
           ELSE IF j > n THEN loop(i + 1, i + 2, identical)
           ELSE (IF identical[<<i, j>>] THEN << <<ai.pdfFiles[i], ai.pdfFiles[j]>> >>
                 ELSE << >>) \o loop(i, j + 1, identical)
     IN  /\ uploaded \/ \E f \in 1..n : ai.upload[f] = "failed"
         /\ \E created \in {"none", "assistant", "both"}, compared \in BOOLEAN,
               identical \in (IF uploaded THEN [pairs -> BOOLEAN]
                               ELSE {[p \in pairs |-> FALSE]}),
               cleanupError \in {"none", "assistant", "thread", "file"} :
              LET assistant == uploaded /\ created # "none"
                  thread == uploaded /\ created = "both"
                  resolved == thread /\ compared
                  identicalPairs == IF resolved THEN loop(1, 2, identical) ELSE << >>
                  thrown == IF assistant /\ cleanupError = "assistant" THEN "assistant"
                            ELSE IF thread /\ cleanupError = "thread" THEN "thread"
                            ELSE IF ai.uploadedFileIds # << >> /\ cleanupError = "file"
                                 THEN "file" ELSE "none"
              IN  ai' = [ai EXCEPT
                    !.pc = IF resolved THEN "resolved" ELSE "rejected",
                    !.assistant = IF ~assistant THEN "null"
                                  ELSE IF thrown = "assistant" THEN "created" ELSE "deleted",
                    !.thread = IF ~thread THEN "null"
                               ELSE IF thrown \in {"assistant", "thread"} THEN "created"
                               ELSE "deleted",
                    !.remoteFiles = IF thrown = "none" THEN {} ELSE @,
                    !.identicalPairs = identicalPairs,
                    !.identicalGroups =
                       IF ~resolved THEN << >>
                       ELSE IF n = 2 THEN identicalPairs
                       ELSE groupIdenticalFiles(identicalPairs, ai.pdfFiles),
                    !.cleanupError = thrown,
                    !.inFlight = {f \in 1..n : ai.upload[f] = "pending"}]
  /\ UNCHANGED <<batch, script, platform, now, files, fontDir, budget, req, sup, child>>

NextAi == AiUploadSettles \/ AiSettle

SpecAi == InitAi /\ [][NextAi]_vars

\* ------------------------------------------------------------ properties
\* the first attempt of request j ended in a failure that names missing fonts
MissingFontFailure(j) ==
  IsRetryable(req[j].firstResult) /\ Includes(req[j].firstResult.msg, MissingFontsText)

\* the request's handler is past its conversion attempts
Concluded(j) == req[j].pc \in {"send", "error", "done"}

\* the supervisor call of request j has returned to its caller
Returned(j) == req[j].pc \in {"finish", "handle", "respond", "send", "error", "done"}

\* the child of request j belongs to the current supervisor call
SpawnedNow(j) == sup[j].timeout # "idle"

\* C1: one upload request invokes the conversion pipeline at most twice, and
\* never spawns more processes than it made attempts, also when the retry
\* reports missing fonts again.
C1_AtMostTwoAttempts ==
  \A j \in Jobs : req[j].attempts <= 2 /\ req[j].spawns <= req[j].attempts

\* a request that ended after a retry which reported missing fonts again
C1_Witness ==
  \E j \in Jobs :
    /\ req[j].pc = "done" /\ req[j].attempts = 2 /\ req[j].spawns = 2
    /\ IsRetryable(req[j].result) /\ Includes(req[j].result.msg, MissingFontsText)

\* C2: when the first attempt failed on missing fonts and the retry failed too,
\* the response carries the first attempt's message, as a conversion failure.
C2_OriginalDiagnosticSurfaced ==
  \A j \in Jobs :
    (req[j].pc = "done" /\ req[j].attempts = 2 /\ req[j].result.st = "err"
       /\ MissingFontFailure(j))
    => /\ req[j].response.msg = req[j].firstResult.msg
       /\ req[j].response.code = "INDESIGN_CONVERSION_FAILED"
       /\ req[j].response.status = 422

\* the retry timed out, and the answer still is the first diagnostic
C2_Witness ==
  \E j \in Jobs :
    /\ req[j].pc = "done" /\ req[j].attempts = 2 /\ MissingFontFailure(j)
    /\ req[j].result.msg = TimeoutMsg
    /\ req[j].response.msg = req[j].firstResult.msg

\* C3 as stated: a second conversion attempt happens only after a first attempt
\* whose failure names missing fonts.
C3_RetryOnlyOnMissingFonts ==
  \A j \in Jobs : req[j].attempts = 2 => Includes(req[j].firstResult.msg, MissingFontsText)

\* C4: after a missing-font failure of the first attempt the request never
\* concludes without exactly one retry, whatever remediation achieved.
C4_RetriedExactlyOnce ==
  \A j \in Jobs : (Concluded(j) /\ MissingFontFailure(j)) => req[j].attempts = 2

\* the diagnostic yielded no font name, and the retry ran all the same
C4_Witness ==
  \E j \in Jobs :
    /\ req[j].pc = "done" /\ MissingFontFailure(j)
    /\ req[j].missingFonts = << >> /\ req[j].attempts = 2 /\ req[j].spawns = 2

\* C5: once the timeout timer has fired, the supervisor's outcome is the timeout
\* failure and stays it, in the Convert and in the Compare flow, and that is
\* what the caller gets.
C5_TimeoutIsFinal ==
  \A j \in Jobs :
    sup[j].timeout = "fired"
    => /\ sup[j].promise = IF req[j].mode = "convert" THEN Err("", TimeoutMsg)
                           ELSE Err("TIMEOUT", AcrobatTimeoutMsg)
       /\ req[j].pc \in {"handle", "respond"} =>
            /\ req[j].pending = sup[j].promise
            /\ req[j].result.st = "err" /\ req[j].result.msg = sup[j].promise.msg

\* after the timeout the child closed with exit code 0 and the PDF is there
C5_Witness ==
  \E j \in Jobs :
    /\ sup[j].timeout = "fired" /\ req[j].pc = "handle"
    /\ child[j].state = "closed" /\ child[j].code = 0 /\ ~child[j].errored
    /\ sup[j].pdfPath \in files

\* C6 as stated: once the 5000 ms grace timer has run, the child is not running.
C6_NotRunningAfterGrace ==
  \A j \in Jobs : sup[j].killTimer = "fired" => child[j].state # "running"

\* C7 as stated: once the supervisor call has returned, no script file written
\* for it exists.
C7_ScriptFilesDeleted ==
  \A j \in Jobs :
    Returned(j) => sup[j].scriptPath \notin files /\ sup[j].appleScriptPath \notin files

\* C8 as stated: at most one child process runs at any time.
C8_OneSession == Cardinality({j \in Jobs : child[j].state = "running"}) <= 1

\* C9: a resolved run is a success only if the PDF exists at the expected
\* path, and is a PDF_NOT_GENERATED failure otherwise; convert and compare.
C9_ArtifactRequired ==
  \A j \in Jobs :
    /\ (req[j].pc \in {"handle", "respond"} /\ req[j].result.st = "ok")
         => sup[j].pdfPath \in files
    /\ (req[j].pc \in {"handle", "respond"} /\ SpawnedNow(j) /\ req[j].pending.st = "ok"
          /\ sup[j].pdfPath \notin files)
         => req[j].result.code = "PDF_NOT_GENERATED"

\* the process exited with code 0 and no marker, and left no PDF
C9_Witness ==
  \E j \in Jobs :
    /\ req[j].mode = "convert" /\ req[j].pc = "handle" /\ SpawnedNow(j)
    /\ child[j].state = "closed" /\ child[j].code = 0
    /\ req[j].pending.st = "ok" /\ req[j].result.code = "PDF_NOT_GENERATED"

\* C10 as stated: a conversion process that exited with code 0 and left the
\* PDF on disk is a success.
C10_ExitZeroAndArtifact ==
  \A j \in Jobs :
    (req[j].mode = "convert" /\ req[j].pc = "handle" /\ SpawnedNow(j)
       /\ child[j].state = "closed" /\ child[j].code = 0 /\ sup[j].pdfPath \in files)
    => req[j].result.st = "ok"

\* C10, amended: a conversion process that closes with code 0 while the timer
\* is still armed, with no ERROR: marker in stdout or in the noise-filtered
\* stderr, resolves the supervisor; and a resolved supervisor whose PDF is on
\* disk is a success.
C10_CleanExitAndArtifact ==
  [][\A j \in Jobs :
       /\ (req[j].mode = "convert" /\ child[j].state = "exited" /\ child'[j].state = "closed"
             /\ child[j].code = 0 /\ sup[j].timeout = "armed"
             /\ ~Includes(sup[j].stdout, ErrorMarker)
             /\ ~Includes(FilterNoise(sup[j].stderr), ErrorMarker))
            => sup'[j].promise = Ok
       /\ (req[j].mode = "convert" /\ req[j].pc = "finish" /\ req'[j].pc = "handle"
             /\ req[j].pending = Ok /\ sup[j].pdfPath \in files)
            => req'[j].result = Ok]_vars

\* a clean exit with output on stderr and the PDF on disk became a success
C10_Witness ==
  \E j \in Jobs :
    /\ req[j].mode = "convert" /\ req[j].pc = "handle" /\ SpawnedNow(j)
    /\ child[j].state = "closed" /\ child[j].code = 0 /\ sup[j].timeout = "cleared"
    /\ budget < MaxOut
    /\ sup[j].pdfPath \in files /\ req[j].result = Ok

C12_OneProcessOneOutcome ==
  \A j \in Jobs :
    /\ req[j].spawns <= req[j].attempts
    /\ req[j].pc = "await" => (SpawnedNow(j) \/ sup[j].promise.st # "pending")

\* C13: an invocation whose promise is pending while its caller waits still
\* has something ahead that settles it (the timeout timer, the 10 s settle
\* timer, or an event of the child process): it never waits on anything else.
C13_PendingHasCause ==
  \A j \in Jobs :
    (req[j].pc = "await" /\ sup[j].promise.st = "pending")
    => \/ sup[j].timeout = "armed"
       \/ sup[j].settle = "armed"
       \/ child[j].state \in {"running", "exited"}
       \/ child[j].state = "failed" /\ ~child[j].errored

\* C14: when the 10 s callback after a clean close runs, the first candidate in
\* the fixed order that exists becomes the expected output path (or stays where
\* it is when the rename fails) and no other candidate is touched; when the
\* caller then looks for the output, the comparison succeeds exactly if the
\* expected path exists, and ends as PDF_NOT_GENERATED if it does not.
C14_FirstCandidateRenamed ==
  [][\A j \in Jobs :
       /\ (sup[j].settle = "armed" /\ sup'[j].settle = "fired") =>
            LET first == {n \in 1 .. Len(possibleNames(j)) :
                            /\ ReportPath(possibleNames(j)[n]) \in files
                            /\ \A m \in 1 .. (n - 1) :
                                 ReportPath(possibleNames(j)[m]) \notin files}
            IN
            /\ \A n \in 1 .. Len(possibleNames(j)) :
                 LET p == ReportPath(possibleNames(j)[n]) IN
                 IF n \in first
                 THEN \/ p \notin files' /\ sup[j].pdfPath \in files'
                      \/ p \in files' /\ sup[j].pdfPath \notin files'
                 ELSE (p \in files') = (p \in files)
            /\ first = {} => sup[j].pdfPath \notin files'
            /\ sup'[j].promise = Ok
       /\ (req[j].mode = "compare" /\ req[j].pc = "await" /\ req'[j].pc = "respond"
             /\ sup[j].promise = Ok) =>
            req'[j].result = IF sup[j].pdfPath \in files THEN Ok
                             ELSE Err("PDF_NOT_GENERATED", ComparisonNotGeneratedMsg)
  ]_vars

\* two candidates were there; the first in order was renamed, the other is
\* still in the folder, and the comparison succeeded
C14_Witness ==
  \E j \in Jobs :
    /\ req[j].mode = "compare" /\ req[j].pc = "respond" /\ req[j].result = Ok
    /\ sup[j].settle = "fired" /\ sup[j].pdfPath \in files
    /\ ReportPath(Pdf2Name(j)) \notin files
    /\ ReportPath(<<"correct">>) \in files

\* C15: for a diagnostic in the documented format, parseMissingFonts returns
\* exactly the listed names, in listing order.
C15_ParsedAreListed ==
  \A j \in Jobs :
    (req[j].attempts = 1 /\ req[j].pc \in {"download", "install", "convert"}
       /\ Includes(req[j].originalErrorMessage, MissingFontsText))
    => req[j].missingFonts = Listed(req[j].originalErrorMessage)

\* C16: an installation run that finds a downloaded font's file name already
\* in the font directory does not copy that font, keeps the file, and still
\* reports its base name as available; when every name is already there the
\* font directory is unchanged.
C16_InstallIdempotent ==
  [][\A j \in Jobs :
       (req[j].pc = "install" /\ req'[j].pc = "convert" /\ ~req'[j].downloadError) =>
         LET d == req[j].downloadedFonts
             there == {n \in 1..Len(d) : d[n][4] \in fontDir}
         IN  /\ \A n \in there :
                  /\ d[n][4] \notin (req'[j].copied \ req[j].copied)
                  /\ d[n][4] \in fontDir'
                  /\ BaseName(d[n][4]) \in Range(req'[j].hints)
             /\ there = 1..Len(d) => fontDir' = fontDir
  ]_vars

\* the downloaded font was in the font directory already: nothing was copied
\* and its base name was reported
C16_Witness ==
  \E j \in Jobs :
    /\ req[j].pc = "convert" /\ req[j].attempts = 1 /\ ~req[j].downloadError
    /\ req[j].downloadedFonts # << >>
    /\ \A n \in 1..Len(req[j].downloadedFonts) : req[j].downloadedFonts[n][4] \in fontDir
    /\ req[j].copied = {}
    /\ req[j].hints # << >>

C18_UploadCleanedUp ==
  \A j \in Jobs :
    (req[j].mode = "convert" /\ req[j].pc = "done")
    => /\ UploadPath(j) \notin files
       /\ Under(ExtractPath(j)) \cap files = {}

\* C19: the code of a rejection tells its failure class: a timeout carries
\* TIMEOUT and nothing else does; a launch failure carries a launch code
\* (LAUNCH_FAILED, or the compare flow's APPLESCRIPT_ERROR) and nothing else
\* does.
C19_CodeIdentifiesClass ==
  \A j \in Jobs :
    LET r == req[j].result IN
    r.st = "err" =>
      /\ (r.msg \in {TimeoutMsg, AcrobatTimeoutMsg}) <=> (r.code = "TIMEOUT")
      /\ (r.msg \in {LaunchMsg, AppleScriptErrorMsg})
           <=> (r.code \in {"LAUNCH_FAILED", "APPLESCRIPT_ERROR"})

\* C20: the export step has not run for a document that has a missing link, a
\* corrupt link, or a missing font that no hint names (the font's own name and
\* a hint contain one another once both are normalized), provided the check
\* of the document ran to its end.
C20_NoExportWithCriticalErrors ==
  (script.exported /\ ~script.isBook /\ ~script.warned) =>
    /\ \A n \in 1 .. Len(script.links) :
         ~LinkIsMissing(script.links[n]) /\ ~LinkIsCorrupt(script.links[n])
    /\ \A n \in 1 .. Len(script.fonts) :
         script.fonts[n].status = "NOT_AVAILABLE" => isFontAvailable(script.fonts[n].name)

\* C21: when the generated script has ended, on its success path or through
\* its catch block, InDesign was asked to quit, and the document or book was
\* closed if one had been opened.
C21_ClosedAndQuit ==
  script.pc \in {"done", "failed"} => (script.quit /\ (script.opened => script.closed))

\* the export of an opened document failed, and the catch block closed it and
\* asked InDesign to quit
C21_Witness ==
  /\ script.pc = "failed" /\ script.opened /\ script.exported
  /\ script.closed /\ script.quit

\* C22: a convert or compare call that finds its input file missing fails
\* with FILE_NOT_FOUND in that very step, which writes no file, chooses no
\* script path and spawns nothing; and the handler that receives a
\* FILE_NOT_FOUND failure goes straight to its error answer: no font is
\* parsed, downloaded or installed and no further attempt is made.
C22_MissingInputFailsEarly ==
  [][\A j \in Jobs :
       /\ (/\ \/ (req[j].pc = "convert" /\ InddPath(j) \notin files)
               \/ (req[j].pc = "compare"
                     /\ (Pdf1Path(j) \notin files \/ Pdf2Path(j) \notin files))
            /\ req'[j].pc # req[j].pc)
           => /\ req'[j].result.st = "err" /\ req'[j].result.code = "FILE_NOT_FOUND"
              /\ files' = files /\ sup' = sup /\ child' = child
              /\ req'[j].spawns = req[j].spawns
       /\ (/\ req[j].pc = "handle" /\ req[j].result.code = "FILE_NOT_FOUND"
            /\ req'[j].pc # "handle")
           => /\ req'[j].pc = "error"
              /\ req'[j].attempts = req[j].attempts
              /\ req'[j].missingFonts = req[j].missingFonts
              /\ req'[j].downloadedFonts = req[j].downloadedFonts
              /\ fontDir' = fontDir
  ]_vars

\* the extracted document was gone when the conversion started: the request
\* ended with 400 after one attempt that spawned nothing
C22_Witness ==
  \E j \in Jobs :
    /\ req[j].mode = "convert" /\ req[j].pc = "done"
    /\ req[j].firstResult.code = "FILE_NOT_FOUND" /\ req[j].response.status = 400
    /\ req[j].attempts = 1 /\ req[j].spawns = 0 /\ sup[j] = NoSup

\* C23: while the osascript child of a comparison that timed out is still
\* running, a force-kill is ahead: the grace timer set by the timeout is armed.
C23_CompareForceKills ==
  \A j \in Jobs :
    (req[j].mode = "compare" /\ sup[j].timedOut /\ child[j].state = "running")
    => sup[j].killTimer = "armed"

\* C24: in both flows the close handler of a run that was not timed out
\* makes the run a failure when the exit code is not 0, or when the marker
\* ERROR: is in stdout or in stderr (the duplicate-class warning lines of
\* stderr set aside); such a run never resolves and never starts the search
\* for the report.
C24_MarkerMeansFailure ==
  [][\A j \in Jobs :
       (/\ child[j].state = "exited" /\ child'[j].state = "closed"
        /\ sup[j].timeout = "armed"
        /\ \/ child[j].code # 0
           \/ Includes(sup[j].stdout, ErrorMarker)
           \/ Includes(FilterNoise(sup[j].stderr), ErrorMarker))
       => (sup'[j].promise.st = "err" /\ sup'[j].settle = "idle")
  ]_vars

\* C25: a conversion run that closes with exit code 0 before the timeout, and
\* whose stdout and stderr hold the marker ERROR: on duplicate-class warning
\* lines only, resolves as a success.
C25_NoiseMarkerIgnored ==
  [][\A j \in Jobs :
       (/\ req[j].mode = "convert"
        /\ child[j].state = "exited" /\ child'[j].state = "closed"
        /\ sup[j].timeout = "armed" /\ child[j].code = 0
        /\ ~Includes(FilterNoise(sup[j].stdout), ErrorMarker)
        /\ ~Includes(FilterNoise(sup[j].stderr), ErrorMarker))
       => sup'[j].promise = Ok
  ]_vars

\* C26 (as stated): when the retry starts after at least one font was
\* downloaded, the fonts were installed and the font cache was invalidated and
\* left to settle, and the retry's script gets the first attempt's hints
\* followed by the base names of the fonts that were newly copied; when
\* nothing was downloaded, nothing was copied, the cache was left alone and
\* the retry's script gets the first attempt's hints.
C26_InstallAndRefreshBeforeRetry ==
  [][\A j \in Jobs :
       (req[j].pc = "convert" /\ req[j].attempts = 1 /\ req'[j].attempts = 2) =>
         LET d == req[j].downloadedFonts
             added == Picked([n \in 1..Len(d) |-> BaseName(d[n][4])],
                             {n \in 1..Len(d) : d[n][4] \in req[j].copied \cap fontDir}, 1)
         IN  IF d # << >>
             THEN /\ req[j].cache = "removed"
                  /\ sup'[j].fontNames = sup[j].fontNames \o added
             ELSE /\ req[j].cache = "idle" /\ req[j].copied = {}
                  /\ sup'[j].fontNames = sup[j].fontNames
  ]_vars

\* C26 (amended): an installation run that could create the font directory
\* copies the downloaded fonts that are not there yet, then tries to
\* invalidate the font cache, and appends to the hints the base names of the
\* downloaded fonts that are in the font directory afterwards (copied now or
\* found there), in download order; a run that could not create the font
\* directory, and a remediation that downloaded nothing, leave font
\* directory, cache and hints as they were.  All this is over when the retry
\* starts: its script is generated with the hints as they then are, and that
\* script is the one the retry's process is spawned with.
C26_RemediationBeforeRetry ==
  [][\A j \in Jobs :
       LET d == req[j].downloadedFonts IN
       /\ (req[j].pc = "install" /\ req'[j].pc # "install") =>
            /\ req'[j].pc = "convert" /\ req'[j].attempts = 1 /\ req'[j].spawns = 1
            /\ IF req'[j].downloadError
               THEN /\ fontDir' = fontDir /\ req'[j].cache = "idle"
                    /\ req'[j].hints = req[j].hints
               ELSE /\ req'[j].cache \in {"removed", "failed"}
                    /\ fontDir' \ fontDir \subseteq {d[n][4] : n \in 1..Len(d)}
                    /\ req'[j].hints = req[j].hints \o
                         Picked([n \in 1..Len(d) |-> BaseName(d[n][4])],
                                {n \in 1..Len(d) : d[n][4] \in fontDir'}, 1)
       /\ (req[j].pc \in {"handle", "download"} /\ req'[j].pc = "convert") =>
            /\ req'[j].downloadedFonts = << >>
            /\ fontDir' = fontDir /\ req'[j].cache = "idle"
            /\ req'[j].hints = req[j].hints
       /\ (req[j].pc = "convert" /\ req[j].attempts = 1 /\ req'[j].attempts = 2) =>
            /\ req[j].spawns = 1
            /\ sup'[j].fontNames = req[j].hints
            /\ (d # << >> /\ ~req[j].downloadError) => req[j].cache # "idle"
            /\ d = << >> => (req[j].cache = "idle" /\ req[j].copied = {})
       /\ (req[j].attempts = 2 /\ req'[j].spawns = 2 /\ req[j].spawns = 1) =>
            sup'[j].fontNames = req[j].hints /\ fontDir' = fontDir
  ]_vars

\* the retry was spawned after a font was downloaded and copied and the cache
\* invalidated; its script has the package's hint followed by the new font
C26_Witness ==
  \E j \in Jobs :
    /\ req[j].attempts = 2 /\ req[j].spawns = 2 /\ child[j].state = "running"
    /\ req[j].cache = "removed"
    /\ FontFile("solway-bold") \in req[j].copied \cap fontDir
    /\ sup[j].fontNames = <<"Poppins-Regular", "solway-bold">>

\* C27: downloadMissingFonts always returns (it never lands in the route's
\* catch): with the paths of the fonts that were downloaded, which are paths
\* of requested fonts that have a mapping, in request order, and are exactly
\* the files the step wrote; installation follows when the list is not empty
\* and the retry otherwise.
C27_DownloadBestEffort ==
  [][\A j \in Jobs :
       (req[j].pc = "download" /\ req'[j].pc # "download") =>
         LET m == req[j].missingFonts
             paths == [n \in 1..Len(m) |-> DownloadPath(j, FontFile(DownloadName(m[n])))]
             got == req'[j].downloadedFonts
         IN  /\ ~req'[j].downloadError
             /\ req'[j].pc = IF got # << >> THEN "install" ELSE "convert"
             /\ \E S \in SUBSET {n \in 1..Len(m) : DownloadName(m[n]) # ""} :
                  got = Picked(paths, S, 1)
             /\ Range(got) = files' \ files
  ]_vars

\* a font later in the list was downloaded although an earlier one was not
C27_Witness ==
  \E j \in Jobs :
    /\ req[j].pc = "install"
    /\ LET m == req[j].missingFonts IN
       \E n, k \in 1..Len(m) :
         /\ n < k
         /\ DownloadPath(j, FontFile(DownloadName(m[n]))) \notin Range(req[j].downloadedFonts)
         /\ DownloadPath(j, FontFile(DownloadName(m[k]))) \in Range(req[j].downloadedFonts)

\* C28: every name parseMissingFonts returns was taken from a line of the
\* list: a line after the "following fonts are" sub-header and before the first
\* blank line or Solutions / Available line that follows the first listed name.
C28_NamesFromListOnly ==
  \A j \in Jobs :
    (req[j].attempts = 1 /\ req[j].pc \in {"download", "install", "convert"}
       /\ Includes(req[j].originalErrorMessage, FollowingFontsText))
    => LET msg == req[j].originalErrorMessage
           h == FirstLineWith(msg, FollowingFontsText, 1)
           isEnd(i) == msg[i] = << >> \/ LineHas(msg[i], SolutionsText \cup AvailableText)
           f == CHOOSE i \in (h + 1) .. (Len(msg) + 1) :
                  /\ i <= Len(msg) => msg[i] # << >>
                  /\ \A k \in (h + 1) .. (i - 1) : msg[k] = << >>
           e == CHOOSE i \in f .. (Len(msg) + 1) :
                  /\ i <= Len(msg) => isEnd(i)
                  /\ \A k \in f .. (i - 1) : ~isEnd(k)
       IN  \A n \in 1 .. Len(req[j].missingFonts) :
             \E i \in f .. (e - 1) :
               \/ req[j].missingFonts[n] = FontMatch(msg[i])
               \/ \E k \in 1 .. Len(msg[i]) :
                    req[j].missingFonts[n] \in Range(FallbackWords(msg[i][k]))

\* C29: no failure that convert or compare hands to its caller has, in its
\* message, the script path with its line:column marker or one of the
\* wrapper phrases of osascript.
C29_NoBoilerplateSurfaced ==
  \A j \in Jobs :
    req[j].result.st = "err" =>
      ~Includes(req[j].result.msg, PathMarkers \cup WrapperTokens)

\* C30: a request has a response exactly when its handler is done, and the
\* response to a request that ended in the catch block carries the error's
\* message with status 422 for a conversion failure (isPreflight set exactly
\* when the message holds "Preflight Failed"), 400 for FILE_NOT_FOUND and for
\* a package without InDesign file, 504 for the timeout message, 500 for
\* everything else; a first attempt that timed out is answered 504, and a
\* request that made its retry is never answered 504.
C30_ErrorMapping ==
  \A j \in Jobs :
    /\ (req[j].response.status # 0) <=> (req[j].pc = "done")
    /\ (req[j].mode = "convert" /\ req[j].pc = "done" /\ req[j].error.st = "err") =>
         LET e == req[j].error
             r == req[j].response
         IN  /\ r.msg = e.msg
             /\ r.status = IF e.code = "INDESIGN_CONVERSION_FAILED" THEN 422
                           ELSE IF e.code = "FILE_NOT_FOUND" \/ e.msg = NoInDesignFileMsg
                                THEN 400
                           ELSE IF e.msg = TimeoutMsg THEN 504
                           ELSE 500
             /\ r.isPreflight = (e.code = "INDESIGN_CONVERSION_FAILED"
                                   /\ Includes(e.msg, PreflightFailedText))
             /\ (req[j].attempts = 1 /\ sup[j].timeout = "fired") => r.status = 504
             /\ req[j].attempts = 2 => r.status = 422

\* the first attempt timed out and the request was answered 504
C30_Witness ==
  \E j \in Jobs :
    /\ req[j].mode = "convert" /\ req[j].pc = "done"
    /\ req[j].attempts = 1 /\ sup[j].timeout = "fired"
    /\ req[j].response.status = 504 /\ req[j].response.msg = TimeoutMsg

\* C31 as stated: once the batch converter is done with a zip file, after a
\* success or after an error, none of that zip's extraction directories exists.
C31_ExtractDirRemoved ==
  batch.pc \in {"loop", "done"} =>
    \A d \in batch.dirs : d[2] >= batch.i

C36_BookFound ==
  batch.pc \in {"loop", "done"} =>
    \A k \in 1 .. Len(batch.zipFiles) :
      (/\ batch.zipFiles[k].entries =
            << [name |-> <<"book", ".indb">>, isDirectory |-> FALSE, entries |-> << >>] >>
       /\ batch.log[k] # << >>
       /\ batch.log[k][1] # << <<"Failed to extract zip file:">> >>)
        => batch.found[k] = << <<"book", ".indb">> >>

\* C33 as stated: the audit lets the export go ahead only if every unavailable
\* font matches one of the hints by its name, its family or its display name;
\* a font that matches no hint is reported, also when its family and style
\* read as empty strings, and so is every unavailable font when there is no
\* hint.
C33_UnhintedFontReported ==
  (script.pc \in {"export", "done"} /\ ~script.isBook) =>
    \A i \in 1 .. Len(script.fonts) :
      script.fonts[i].status = "NOT_AVAILABLE" =>
        \E h \in 1 .. Len(script.availableFonts) :
          \E part \in {script.fonts[i].name, script.fonts[i].fontFamily,
                       DisplayName(script.fonts[i])} :
            LET a == Normalize(part)
                b == Normalize(script.availableFonts[h])
            IN  a # << >> /\ b # << >> /\ (Contains(a, b) \/ Contains(b, a))

\* C34 as stated: two jobs in flight never hold the same temporary script
\* path, and a job that is about to execute its script finds the file it
\* wrote.
C34_ScriptPathPerJob ==
  /\ \A j \in Jobs : \A k \in Jobs \ {j} :
       (sup[j].scriptPath # NoPath /\ ~Returned(j) /\ ~Returned(k))
         => sup[j].scriptPath # sup[k].scriptPath
  /\ \A j \in Jobs :
       req[j].pc \in {"run", "spawn"} => sup[j].scriptPath \in files

\* C35 as stated: a running conversion process never has the InDesign instance
\* it drives killed by a step of another request.
C35_NoCrossKill ==
  \A j \in Jobs : child[j].state = "running" => ~child[j].appKilled

\* C37 as stated: once comparePDFsDirectly has settled, the AI service holds
\* none of the files it uploaded and neither its assistant nor its thread.
C37_RemoteObjectsDeleted ==
  ai.pc \in {"resolved", "rejected"} =>
    /\ ai.remoteFiles = {}
    /\ ai.assistant # "created"
    /\ ai.thread # "created"

\* C38 as stated: the groups returned for more than two files are a partition
\* of the files that occur in identical pairs: each such file is in a group, no
\* file is in two groups or twice in one, and the two files of an identical
\* pair are in the same group.
C38_GroupsPartition ==
  (ai.pc = "resolved" /\ Len(ai.pdfFiles) > 2) =>
    LET groups == ai.identicalGroups
        in(g, f) == \E x \in 1..Len(groups[g]) : groups[g][x] = f
    IN  /\ \A k \in 1 .. Len(ai.identicalPairs) :
             \E g \in 1..Len(groups) :
               in(g, ai.identicalPairs[k][1]) /\ in(g, ai.identicalPairs[k][2])
        /\ \A g \in 1..Len(groups), h \in 1..Len(groups) :
             \A x \in 1..Len(groups[g]), y \in 1..Len(groups[h]) :
               groups[g][x] = groups[h][y] => (g = h /\ x = y)
        /\ \A g \in 1..Len(groups) : \A x \in 1..Len(groups[g]) :
             \E k \in 1 .. Len(ai.identicalPairs) :
               groups[g][x] \in {ai.identicalPairs[k][1], ai.identicalPairs[k][2]}

====
